---------------------------- MODULE Spec2Model ----------------------------
(***************************************************************************)
(* A model of the HGS-CVRP solver (jpjj/cvrp_hgs): the problem and its     *)
(* distance matrix, Solution::evaluate, Split::split, the local search     *)
(* (educate and its five neighbourhoods) and the orchestrator's run loop.  *)
(*                                                                         *)
(* Numbers.  The program computes in f64.  The model uses instances whose  *)
(* coordinates, demands and capacities are integers and whose Euclidean    *)
(* distances are integers too (the customers sit on the axes at distance   *)
(* 3 or 4 of the depot, so that every pairwise distance is 3, 4, 5, 6 or   *)
(* 8); on such instances every f64 operation of the program is exact.      *)
(* The capacity penalty and the cost are rationals [num, den].  Polar      *)
(* angles are counted in quarter turns (PI = 2 quarter turns).             *)
(* Vectors are sequences; position i of the program is position i + 1.     *)
(***************************************************************************)
EXTENDS FiniteSets, Integers, Sequences, TLC

VARIABLES
    problem,    \* the Problem instance (problem.rs)
    solution,   \* the Solution under work (solution.rs)
    penalty,    \* the capacity penalty handed to educate / evaluate
    ls,         \* the LocalSearch instance's tracking state (local_search/mod.rs)
    hgs,        \* the HgsAlgorithm's own fields: population, best solution, counters (lib.rs)
    improvement,\* educate's local flag of the same name
    pc,         \* position of the program
    before,     \* snapshot of the solution taken when the last operation started
    start,      \* snapshot of the solution taken when educate was entered
    last        \* record describing the last operation performed

vars == <<problem, solution, penalty, ls, hgs, improvement, pc, before, start, last>>

-----------------------------------------------------------------------------
(* Bounds of the model *)

MaxCustomers == 3

MaxDemand == 2

MaxCapacity == 3

\* the iterations of HgsAlgorithm::run that are followed
MaxIterations == 4

\* of the tours Population::initialize shuffles, the first MaxShuffled come out in any
\* order; the runs followed are those in which the later shuffles return 0, 1, 2, ...
MaxShuffled == 2

\* individuals held by the populations built directly through Population's methods
MaxPopSize == 3

HighPenalty == 1000

-----------------------------------------------------------------------------
(* Generic helpers *)

Min2(a, b) == IF a < b THEN a ELSE b

Max2(a, b) == IF a > b THEN a ELSE b

Abs(a) == IF a < 0 THEN -a ELSE a

Range(s) == {s[k] : k \in 1..Len(s)}

RECURSIVE SumSeq(_)
SumSeq(s) == IF s = <<>> THEN 0 ELSE Head(s) + SumSeq(Tail(s))

RECURSIVE Gcd(_, _)
Gcd(a, b) == IF b = 0 THEN a ELSE Gcd(b, a % b)

\* sequences over S without repetition, of length Cardinality(S)
Perms(S) ==
    {s \in [1..Cardinality(S) -> S] : \A a, b \in 1..Cardinality(S) : s[a] = s[b] => a = b}

\* Vec::remove(pos), 0-based
RemoveAt(s, pos) == [k \in 1..(Len(s) - 1) |-> IF k <= pos THEN s[k] ELSE s[k + 1]]

\* Vec::insert(pos, x), 0-based, pos <= len
InsertAt(s, pos, x) ==
    [k \in 1..(Len(s) + 1) |-> IF k <= pos THEN s[k] ELSE IF k = pos + 1 THEN x ELSE s[k - 1]]

\* number of positions of s holding x
Count(s, x) == Cardinality({k \in 1..Len(s) : s[k] = x})

-----------------------------------------------------------------------------
(* Rationals [num, den], den > 0, kept in lowest terms *)

Rat(n, d) ==
    LET g == Gcd(Abs(n), d) IN
    IF g = 0 THEN [num |-> 0, den |-> 1] ELSE [num |-> n \div g, den |-> d \div g]

RInt(n) == [num |-> n, den |-> 1]

RAdd(a, b) == Rat(a.num * b.den + b.num * a.den, a.den * b.den)

RSub(a, b) == Rat(a.num * b.den - b.num * a.den, a.den * b.den)

RScale(a, k) == Rat(a.num * k, a.den)

RMul(a, b) == Rat(a.num * b.num, a.den * b.den)

RLess(a, b) == a.num * b.den < b.num * a.den

RLeq(a, b) == a.num * b.den <= b.num * a.den

\* the denominator of the acceptance threshold 1e-6
EpsDen == 1000000

\* delta < -1e-6 for a rational delta: -num/den > 1/EpsDen
BelowMinusEps(delta) == (-delta.num) > (delta.den \div EpsDen)

-----------------------------------------------------------------------------
(* problem.rs *)

\* positions at which a customer may sit; the depot sits at the origin
Sites == {<<3, 0>>, <<0, 4>>, <<-3, 0>>, <<0, -4>>}

DepotSite == <<0, 0>>

\* f64::sqrt on a perfect square
Sqrt(n) == CHOOSE r \in 0..n : r * r = n

\* Node::distance
NodeDistance(a, b) ==
    LET dx == a[1] - b[1]
        dy == a[2] - b[2]
    IN  Sqrt(dx * dx + dy * dy)

\* Problem::new with compute_distance_matrix: nodes 0..n, one of them the depot
NewProblem(sites, demands, depot_index, vehicle_capacity) ==
    LET n == Len(sites)
        cust(i) == IF i < depot_index THEN i + 1 ELSE i
        site == [i \in 0..n |-> IF i = depot_index THEN DepotSite ELSE sites[cust(i)]]
    IN  [ n |-> n,
          depot_index |-> depot_index,
          site |-> site,
          demand |-> [i \in 0..n |-> IF i = depot_index THEN 0 ELSE demands[cust(i)]],
          vehicle_capacity |-> vehicle_capacity,
          distance_matrix |->
              [i \in 0..n |-> [j \in 0..n |->
                  IF i # j THEN NodeDistance(site[i], site[j]) ELSE 0]] ]

\* Problem::get_distance
GetDistance(p, from, to) == p.distance_matrix[from][to]

\* Problem::get_customer_count
GetCustomerCount(p) == p.n

\* the non-depot node indices
Customers(p) == (0..p.n) \ {p.depot_index}

\* the instances of the model with exactly n customers, depot at index 0
ProblemsOfSize(n) ==
    { NewProblem(s, d, 0, c) :
        s \in [1..n -> Sites], d \in [1..n -> 1..MaxDemand], c \in 1..MaxCapacity }

-----------------------------------------------------------------------------
(* solution.rs *)

\* Route::new
NewRoute == [customers |-> <<>>, load |-> 0, distance |-> 0, modified |-> TRUE]

\* the length of depot -> customers in order -> depot
TourLength(customers, p) ==
    IF customers = <<>> THEN 0
    ELSE GetDistance(p, p.depot_index, customers[1])
         + SumSeq([k \in 1..(Len(customers) - 1) |->
                      GetDistance(p, customers[k], customers[k + 1])])
         + GetDistance(p, customers[Len(customers)], p.depot_index)

\* the total demand of a customer sequence
DemandOf(customers, p) == SumSeq([k \in 1..Len(customers) |-> p.demand[customers[k]]])

\* Route::calculate_distance: recomputes when modified, and clears the flag
CalculateDistance(route, p) ==
    IF ~route.modified THEN route
    ELSE [route EXCEPT !.distance = TourLength(route.customers, p), !.modified = FALSE]

\* Route::calculate_load: recomputes when modified, leaves the flag
CalculateLoad(route, p) ==
    IF ~route.modified THEN route
    ELSE [route EXCEPT !.load = DemandOf(route.customers, p)]

\* Route::get_excess_load
GetExcessLoad(route, capacity) ==
    IF route.load > capacity THEN route.load - capacity ELSE 0

\* Solution::new
NewSolution ==
    [ routes |-> <<>>, cost |-> RInt(0), distance |-> 0, excess_capacity |-> 0,
      is_feasible |-> TRUE, giant_tour |-> <<>> ]

\* Solution::from_giant_tour
FromGiantTour(giant_tour) == [NewSolution EXCEPT !.giant_tour = giant_tour]

\* the per-route part of Solution::evaluate: calculate_distance, then calculate_load
EvaluateRoute(route, p) == CalculateLoad(CalculateDistance(route, p), p)

\* an evaluation whose cost leaves the penalty out
EvaluateUnweighted(sol, p, capacity_penalty) ==
    LET routes == [k \in 1..Len(sol.routes) |-> EvaluateRoute(sol.routes[k], p)]
        total_distance == SumSeq([k \in 1..Len(routes) |-> routes[k].distance])
        total_excess ==
            SumSeq([k \in 1..Len(routes) |-> GetExcessLoad(routes[k], p.vehicle_capacity)])
    IN  [sol EXCEPT
            !.routes = routes,
            !.distance = total_distance,
            !.excess_capacity = total_excess,
            !.is_feasible = (total_excess <= 0),
            !.cost = RInt(total_distance + total_excess)]

\* Solution::evaluate
Evaluate(sol, p, capacity_penalty) ==
    LET routes == [k \in 1..Len(sol.routes) |-> EvaluateRoute(sol.routes[k], p)]
        total_distance == SumSeq([k \in 1..Len(routes) |-> routes[k].distance])
        total_excess ==
            SumSeq([k \in 1..Len(routes) |-> GetExcessLoad(routes[k], p.vehicle_capacity)])
    IN  [sol EXCEPT
            !.routes = routes,
            !.distance = total_distance,
            !.excess_capacity = total_excess,
            !.is_feasible = (total_excess <= 0),
            !.cost = RAdd(RInt(total_distance), RScale(capacity_penalty, total_excess))]

\* all customers of all routes, in route order (Solution::update_giant_tour's value)
RECURSIVE Flatten(_)
Flatten(routes) ==
    IF routes = <<>> THEN <<>> ELSE Head(routes).customers \o Flatten(Tail(routes))

-----------------------------------------------------------------------------
(* split.rs *)

\* f64::INFINITY, the initial potential
Infinity == -1

\* a + x in f64 where a may be INFINITY
PotAdd(a, x) == IF a = Infinity THEN Infinity ELSE a + x

\* a < b in f64 where either may be INFINITY
PotLess(a, b) == a # Infinity /\ (b = Infinity \/ a < b)

\* cum_load of Split::split: cum[i] is the demand of the first i customers of the tour
CumLoad(t, p) == [i \in 0..Len(t) |-> DemandOf(SubSeq(t, 1, i), p)]

\* the distance of the route serving t[i..=j] (0-based) in the relaxation
SplitRouteDistance(t, p, i, j) == TourLength(SubSeq(t, i + 1, j + 1), p)

\* the relaxation of potential[j + 1] by the route i..=j: strict "<", first writer wins
Relax(st, i, j, new_potential) ==
    IF PotLess(new_potential, st.potential[j + 1])
    THEN [st EXCEPT !.potential[j + 1] = new_potential, !.pred[j + 1] = i]
    ELSE st

\* the inner `while j < n` loop of Split::split for client i; j is shared by all i
RECURSIVE SplitWhile(_, _, _, _)
SplitWhile(st, i, t, p) ==
    IF ~(st.j < Len(t)) THEN st
    ELSE IF CumLoad(t, p)[st.j + 1] - CumLoad(t, p)[i] > p.vehicle_capacity THEN st
    ELSE LET new_potential ==
                 PotAdd(st.potential[i], SplitRouteDistance(t, p, i, st.j))
             relaxed == Relax(st, i, st.j, new_potential)
         IN  SplitWhile([relaxed EXCEPT !.j = st.j + 1], i, t, p)

\* one iteration of the outer `for i in 0..n` loop, with the trailing "refine" step
SplitIteration(st, i, t, p) ==
    LET w == SplitWhile(st, i, t, p)
        load_i == w.load_i + p.demand[t[i + 1]]
    IN  [w EXCEPT
            !.load_i = load_i,
            !.j = IF w.j < Len(t) /\ (load_i > p.vehicle_capacity \/ i = w.j)
                  THEN w.j + 1 ELSE w.j]

\* the outer loop from client i on
RECURSIVE SplitFor(_, _, _, _)
SplitFor(st, i, t, p) ==
    IF i >= Len(t) THEN st ELSE SplitFor(SplitIteration(st, i, t, p), i + 1, t, p)

\* the state of the dynamic program after the loops
SplitDP(t, p) ==
    SplitFor([ potential |-> [k \in 0..Len(t) |-> IF k = 0 THEN 0 ELSE Infinity],
               pred |-> [k \in 0..Len(t) |-> 0],
               j |-> 0,
               load_i |-> 0 ], 0, t, p)

\* a reconstruction whose copy loop starts one position late (k in i+1..j)
SplitRouteLate(customers, p) ==
    CalculateDistance(CalculateLoad([NewRoute EXCEPT !.customers = Tail(customers)], p), p)

\* a route of the reconstruction: Route::new, push, calculate_load, calculate_distance
SplitRoute(customers, p) ==
    CalculateDistance(CalculateLoad([NewRoute EXCEPT !.customers = customers], p), p)

\* the reconstruction walks pred from j down to 0; the routes come out in tour order
RECURSIVE Reconstruct(_, _, _, _)
Reconstruct(pred, j, t, p) ==
    IF ~(j > 0) THEN <<>>
    ELSE Reconstruct(pred, pred[j], t, p) \o <<SplitRoute(SubSeq(t, pred[j] + 1, j), p)>>

\* Split::split, with the evaluation under the default penalty 1.0 that ends it
Split(sol, p) ==
    IF sol.giant_tour = <<>> THEN [sol EXCEPT !.routes = <<>>]
    ELSE Evaluate([sol EXCEPT
                      !.routes = Reconstruct(SplitDP(sol.giant_tour, p).pred,
                                             Len(sol.giant_tour), sol.giant_tour, p)],
                  p, RInt(1))

\* Split::merge_routes
MergeRoutes(sol) == [sol EXCEPT !.giant_tour = Flatten(sol.routes)]

-----------------------------------------------------------------------------
(* local_search/mod.rs: tracking and move memoization *)

\* Config::default().granularity
Granularity == 20

\* the number of stamps handed out in the specification of the move memoization
MaxMoves == 4

\* an empty HashMap
EmptyMap == [k \in {} |-> 0]

\* HashMap::insert
MapPut(map, key, value) ==
    [k \in (DOMAIN map) \cup {key} |-> IF k = key THEN value ELSE map[k]]

\* the first index in lo..hi whose value no other undercuts (a scan with strict "<")
FirstMin(f, lo, hi) ==
    CHOOSE i \in lo..hi :
        /\ \A i2 \in lo..hi : RLeq(f[i], f[i2])
        /\ \A i2 \in lo..(i - 1) : RLess(f[i], f[i2])

\* utils::get_neighbors: the other customers by distance (a stable sort), truncated
GetNeighbors(customer, p, granularity) ==
    LET others == (0..p.n) \ {customer, p.depot_index}
        d(i) == GetDistance(p, customer, i)
        sorted == CHOOSE s \in Perms(others) :
                     \A a, b \in 1..Len(s) :
                        a < b => (d(s[a]) < d(s[b]) \/ (d(s[a]) = d(s[b]) /\ s[a] < s[b]))
    IN  SubSeq(sorted, 1, Min2(granularity, Len(sorted)))

\* LocalSearch::preprocess_neighbors
PreprocessNeighbors(l, p) ==
    [l EXCEPT !.customer_neighbors =
        [i \in Customers(p) |-> GetNeighbors(i, p, Granularity)]]

\* LocalSearch::initialize_tracking
InitializeTracking(l, sol) ==
    [l EXCEPT !.route_timestamps = [k \in 1..Len(sol.routes) |-> 0],
              !.move_count = 0,
              !.move_timestamps = EmptyMap,
              !.route_sectors = <<>>]

\* LocalSearch::update_route_timestamp
UpdateRouteTimestamp(l, route_idx) ==
    [l EXCEPT !.move_count = l.move_count + 1,
              !.route_timestamps[route_idx + 1] = l.move_count + 1]

\* an answer with the comparison of the two stamps turned round
IsMoveValidReversed(l, customer, move_type, route_idx) ==
    LET key == <<customer, move_type, route_idx>> IN
    ~(key \in DOMAIN l.move_timestamps
        /\ l.move_timestamps[key] < l.route_timestamps[route_idx + 1])

\* LocalSearch::is_move_valid, the answer: false when the move was tested after the
\* route's last modification
IsMoveValid(l, customer, move_type, route_idx) ==
    LET key == <<customer, move_type, route_idx>> IN
    ~(key \in DOMAIN l.move_timestamps
        /\ l.move_timestamps[key] > l.route_timestamps[route_idx + 1])

\* LocalSearch::is_move_valid, the state it leaves when it answers true
StampMove(l, customer, move_type, route_idx) ==
    [l EXCEPT !.move_count = l.move_count + 1,
              !.move_timestamps =
                  MapPut(l.move_timestamps, <<customer, move_type, route_idx>>,
                         l.move_count + 1)]

\* The timestamps are counters that only grow, and the program reads them in one
\* comparison only: a move's stamp against the stamp of the route of its key.  A new
\* stamp is above every stamp there is, and is_move_valid treats a stamp that is not
\* above its route's exactly as a missing one.  The model stores 0 for a route and 1
\* for a move whose stamp is above its route's, and forgets the other stamps: every
\* later comparison comes out as in the program, and the states of a long search are
\* finite.
Compact(l) ==
    LET fresh(key) == l.move_timestamps[key] > l.route_timestamps[key[3] + 1]
        stamps == [key \in {k \in DOMAIN l.move_timestamps : fresh(k)} |-> 1]
    IN  [l EXCEPT
            !.route_timestamps = [k \in 1..Len(l.route_timestamps) |-> 0],
            !.move_timestamps = stamps,
            !.move_count = IF DOMAIN stamps # {} THEN 1 ELSE 0]

\* what a neighbourhood returns: the flag, and the state it leaves; move records the
\* indices the accepted move was applied with
Outcome(improved, l, sol, panicked) ==
    [improvement |-> improved, ls |-> l, solution |-> sol, panicked |-> panicked,
     move |-> [op |-> "none"]]

Moved(outcome, op, r1_idx, r2_idx, pos1, pos2) ==
    [outcome EXCEPT !.move = [op |-> op, r1_idx |-> r1_idx, r2_idx |-> r2_idx,
                              pos1 |-> pos1, pos2 |-> pos2]]

-----------------------------------------------------------------------------
(* local_search/utils.rs *)

\* utils::find_route_for_customer; -1 is None
FindRouteForCustomer(sol, customer) ==
    LET holding == {k \in 1..Len(sol.routes) : customer \in Range(sol.routes[k].customers)}
    IN  IF holding = {} THEN -1 ELSE (CHOOSE k \in holding : \A k2 \in holding : k <= k2) - 1

\* iter().position(|&c| c == customer), which is present
PositionOf(customers, customer) ==
    (CHOOSE k \in 1..Len(customers) :
        customers[k] = customer /\ \A k2 \in 1..(k - 1) : customers[k2] # customer) - 1

\* the node before position pos of a route, the depot at the front
PrevNode(customers, pos, p) == IF pos > 0 THEN customers[pos] ELSE p.depot_index

\* utils::calculate_insertion_cost: the route's new distance, from its cached distance
CalculateInsertionCost(route, customer, pos, p) ==
    LET customers == route.customers
        n == Len(customers)
        prev_idx == PrevNode(customers, pos, p)
        next_idx == IF pos < n THEN customers[pos + 1] ELSE p.depot_index
    IN  IF n = 0 THEN GetDistance(p, p.depot_index, customer) * 2
        ELSE route.distance - GetDistance(p, prev_idx, next_idx)
             + (GetDistance(p, prev_idx, customer) + GetDistance(p, customer, next_idx))

\* utils::calculate_removal_cost: the change of the route's distance
CalculateRemovalCost(route, pos, p) ==
    LET customers == route.customers
        n == Len(customers)
        prev_idx == PrevNode(customers, pos, p)
        curr_idx == customers[pos + 1]
        next_idx == IF pos < n - 1 THEN customers[pos + 2] ELSE p.depot_index
    IN  IF n <= 1 THEN -route.distance
        ELSE GetDistance(p, prev_idx, next_idx)
             - (GetDistance(p, prev_idx, curr_idx) + GetDistance(p, curr_idx, next_idx))

\* utils::create_temp_route: the customers are copied, the distance is left at 0.0
CreateTempRoute(route, remove_pos, insert_customer, insert_pos) ==
    [NewRoute EXCEPT
        !.customers = InsertAt(RemoveAt(route.customers, remove_pos), insert_pos, insert_customer)]

\* capacity_penalty * (new_excess - original_excess), from a route's cached load
PenaltyDelta(capacity_penalty, old_load, new_load, capacity) ==
    RScale(capacity_penalty, Max2(new_load - capacity, 0) - Max2(old_load - capacity, 0))

\* the traversal orders a shuffle of the routes and of each route's positions can
\* give: sequences of <<route index, position>>, grouped by route
RECURSIVE AnchorsOf(_, _, _)
AnchorsOf(sol, route_order, k) ==
    IF k > Len(route_order) THEN {<<>>}
    ELSE LET r == route_order[k]
             n == Len(sol.routes[r + 1].customers)
         IN  { [i \in 1..n |-> <<r, po[i]>>] \o rest :
                 po \in Perms(0..(n - 1)), rest \in AnchorsOf(sol, route_order, k + 1) }

AnchorOrders(sol) ==
    UNION { AnchorsOf(sol, ro, 1) : ro \in Perms(0..(Len(sol.routes) - 1)) }

-----------------------------------------------------------------------------
(* local_search/relocate.rs *)

\* LocalSearch::evaluate_relocate: the delta and the insertion position
EvaluateRelocate(sol, p, r1_idx, r2_idx, c_pos, capacity_penalty) ==
    LET r1 == sol.routes[r1_idx + 1]
        r2 == sol.routes[r2_idx + 1]
        customer == r1.customers[c_pos + 1]
        demand == p.demand[customer]
        r2_delta == [i \in 0..Len(r2.customers) |->
                        CalculateInsertionCost(r2, customer, i, p) - r2.distance]
        r2_penalty_delta ==
            PenaltyDelta(capacity_penalty, r2.load, r2.load + demand, p.vehicle_capacity)
    IN  IF Len(r1.customers) = 1
        THEN \* removing the only customer: r1's distance goes, its load is not looked at
             LET total == [i \in 0..Len(r2.customers) |->
                              RAdd(RInt(r2_delta[i]), r2_penalty_delta)]
                 best_pos == FirstMin(total, 0, Len(r2.customers))
             IN  [delta |-> RSub(total[best_pos], RInt(r1.distance)), pos |-> best_pos]
        ELSE LET r1_delta == CalculateRemovalCost(r1, c_pos, p)
                 r1_penalty_delta ==
                     PenaltyDelta(capacity_penalty, r1.load, r1.load - demand,
                                  p.vehicle_capacity)
                 total == [i \in 0..Len(r2.customers) |->
                              RAdd(RAdd(RInt(r1_delta), r1_penalty_delta),
                                   RAdd(RInt(r2_delta[i]), r2_penalty_delta))]
                 best_pos == FirstMin(total, 0, Len(r2.customers))
             IN  [delta |-> total[best_pos], pos |-> best_pos]

\* a relocate that inserts the customer and leaves it in its route as well
ApplyRelocateCopy(sol, r1_idx, r2_idx, c_pos, insert_pos) ==
    LET customer == sol.routes[r1_idx + 1].customers[c_pos + 1] IN
    [sol EXCEPT
        !.routes[r1_idx + 1].modified = TRUE,
        !.routes[r2_idx + 1].customers = InsertAt(@, insert_pos, customer),
        !.routes[r2_idx + 1].modified = TRUE]

\* LocalSearch::apply_relocate
ApplyRelocate(sol, r1_idx, r2_idx, c_pos, insert_pos) ==
    LET customer == sol.routes[r1_idx + 1].customers[c_pos + 1] IN
    [sol EXCEPT
        !.routes[r1_idx + 1].customers = RemoveAt(@, c_pos),
        !.routes[r1_idx + 1].modified = TRUE,
        !.routes[r2_idx + 1].customers = InsertAt(@, insert_pos, customer),
        !.routes[r2_idx + 1].modified = TRUE]

\* the accepted move of relocate_neighborhood: apply, stamp both routes, re-evaluate
AcceptRelocate(l, sol, p, r1_idx, r2_idx, c_pos, insert_pos, capacity_penalty) ==
    Moved(Outcome(TRUE,
                  UpdateRouteTimestamp(UpdateRouteTimestamp(l, r1_idx), r2_idx),
                  Evaluate(ApplyRelocate(sol, r1_idx, r2_idx, c_pos, insert_pos), p,
                           capacity_penalty),
                  FALSE),
          "relocate", r1_idx, r2_idx, c_pos, insert_pos)

\* the loop over the neighbours of the customer at c_pos of route r1_idx, from the
\* k-th neighbour on
RECURSIVE RelocateNeighborLoop(_, _, _, _, _, _, _, _)
RelocateNeighborLoop(neighbors, k, r1_idx, c_pos, l, sol, p, capacity_penalty) ==
    IF k > Len(neighbors) THEN Outcome(FALSE, l, sol, FALSE)
    ELSE LET customer == sol.routes[r1_idx + 1].customers[c_pos + 1]
             r2_idx == FindRouteForCustomer(sol, neighbors[k])
         IN  IF r2_idx = -1 \/ r2_idx = r1_idx
                \/ ~IsMoveValid(l, customer, 0, r2_idx)
             THEN RelocateNeighborLoop(neighbors, k + 1, r1_idx, c_pos, l, sol, p,
                                       capacity_penalty)
             ELSE LET stamped == StampMove(l, customer, 0, r2_idx)
                      move == EvaluateRelocate(sol, p, r1_idx, r2_idx, c_pos,
                                               capacity_penalty)
                  IN  IF BelowMinusEps(move.delta)
                      THEN AcceptRelocate(stamped, sol, p, r1_idx, r2_idx, c_pos, move.pos,
                                          capacity_penalty)
                      ELSE RelocateNeighborLoop(neighbors, k + 1, r1_idx, c_pos, stamped, sol,
                                                p, capacity_penalty)

\* customer_neighbors.get(&customer), computed and stored when missing
WithNeighbors(l, customer, p) ==
    IF customer \in DOMAIN l.customer_neighbors THEN l
    ELSE [l EXCEPT !.customer_neighbors =
             MapPut(l.customer_neighbors, customer, GetNeighbors(customer, p, Granularity))]

\* the loops over routes and customers in the shuffled order, from the a-th anchor on
RECURSIVE RelocateAnchorLoop(_, _, _, _, _, _)
RelocateAnchorLoop(anchors, a, l, sol, p, capacity_penalty) ==
    IF a > Len(anchors) THEN Outcome(FALSE, l, sol, FALSE)
    ELSE LET r1_idx == anchors[a][1]
             c_pos == anchors[a][2]
             customer == sol.routes[r1_idx + 1].customers[c_pos + 1]
             known == WithNeighbors(l, customer, p)
             tried == RelocateNeighborLoop(known.customer_neighbors[customer], 1, r1_idx,
                                           c_pos, known, sol, p, capacity_penalty)
         IN  IF tried.improvement THEN tried
             ELSE RelocateAnchorLoop(anchors, a + 1, tried.ls, sol, p, capacity_penalty)

\* LocalSearch::relocate_neighborhood under one outcome of its shuffles
RelocateNeighborhood(anchors, l, sol, p, capacity_penalty) ==
    RelocateAnchorLoop(anchors, 1, l, sol, p, capacity_penalty)

-----------------------------------------------------------------------------
(* local_search/swap.rs *)

\* LocalSearch::calculate_swap_cost_for_route: 0.0 for a single-customer route
CalculateSwapCostForRoute(route, pos, new_customer, p) ==
    LET customers == route.customers
        n == Len(customers)
        prev_idx == PrevNode(customers, pos, p)
        curr_idx == customers[pos + 1]
        next_idx == IF pos < n - 1 THEN customers[pos + 2] ELSE p.depot_index
    IN  IF n <= 1 THEN 0
        ELSE (GetDistance(p, prev_idx, new_customer) + GetDistance(p, new_customer, next_idx))
             - (GetDistance(p, prev_idx, curr_idx) + GetDistance(p, curr_idx, next_idx))

\* LocalSearch::evaluate_swap
EvaluateSwap(sol, p, r1_idx, r2_idx, c1_pos, c2_pos, capacity_penalty) ==
    LET r1 == sol.routes[r1_idx + 1]
        r2 == sol.routes[r2_idx + 1]
        customer1 == r1.customers[c1_pos + 1]
        customer2 == r2.customers[c2_pos + 1]
        r1_delta == CalculateSwapCostForRoute(r1, c1_pos, customer2, p)
        r2_delta == CalculateSwapCostForRoute(r2, c2_pos, customer1, p)
        demand1 == p.demand[customer1]
        demand2 == p.demand[customer2]
        r1_penalty_delta ==
            PenaltyDelta(capacity_penalty, r1.load, r1.load - demand1 + demand2,
                         p.vehicle_capacity)
        r2_penalty_delta ==
            PenaltyDelta(capacity_penalty, r2.load, r2.load - demand2 + demand1,
                         p.vehicle_capacity)
    IN  RAdd(RInt(r1_delta + r2_delta), RAdd(r1_penalty_delta, r2_penalty_delta))

\* LocalSearch::apply_swap
ApplySwap(sol, r1_idx, r2_idx, c1_pos, c2_pos) ==
    LET customer1 == sol.routes[r1_idx + 1].customers[c1_pos + 1]
        customer2 == sol.routes[r2_idx + 1].customers[c2_pos + 1]
    IN  [sol EXCEPT
            !.routes[r1_idx + 1].customers[c1_pos + 1] = customer2,
            !.routes[r1_idx + 1].modified = TRUE,
            !.routes[r2_idx + 1].customers[c2_pos + 1] = customer1,
            !.routes[r2_idx + 1].modified = TRUE]

\* the loop over the neighbours of customer1 in swap_neighborhood
RECURSIVE SwapNeighborLoop(_, _, _, _, _, _, _, _)
SwapNeighborLoop(neighbors, k, r1_idx, c1_pos, l, sol, p, capacity_penalty) ==
    IF k > Len(neighbors) THEN Outcome(FALSE, l, sol, FALSE)
    ELSE LET customer1 == sol.routes[r1_idx + 1].customers[c1_pos + 1]
             r2_idx == FindRouteForCustomer(sol, neighbors[k])
         IN  IF r2_idx = -1 \/ r2_idx = r1_idx
                \/ ~IsMoveValid(l, customer1, 1, r2_idx)
             THEN SwapNeighborLoop(neighbors, k + 1, r1_idx, c1_pos, l, sol, p,
                                   capacity_penalty)
             ELSE LET c2_pos == PositionOf(sol.routes[r2_idx + 1].customers, neighbors[k])
                      stamped == StampMove(l, customer1, 1, r2_idx)
                      delta == EvaluateSwap(sol, p, r1_idx, r2_idx, c1_pos, c2_pos,
                                            capacity_penalty)
                  IN  IF BelowMinusEps(delta)
                      THEN Moved(Outcome(TRUE,
                                         UpdateRouteTimestamp(
                                             UpdateRouteTimestamp(stamped, r1_idx), r2_idx),
                                         Evaluate(ApplySwap(sol, r1_idx, r2_idx, c1_pos, c2_pos),
                                                  p, capacity_penalty),
                                         FALSE),
                                 "swap", r1_idx, r2_idx, c1_pos, c2_pos)
                      ELSE SwapNeighborLoop(neighbors, k + 1, r1_idx, c1_pos, stamped, sol, p,
                                            capacity_penalty)

\* the loops over routes and customers; customer_neighbors[&customer1] panics when
\* the customer has no entry
RECURSIVE SwapAnchorLoop(_, _, _, _, _, _)
SwapAnchorLoop(anchors, a, l, sol, p, capacity_penalty) ==
    IF a > Len(anchors) THEN Outcome(FALSE, l, sol, FALSE)
    ELSE LET r1_idx == anchors[a][1]
             c1_pos == anchors[a][2]
             customer1 == sol.routes[r1_idx + 1].customers[c1_pos + 1]
         IN  IF customer1 \notin DOMAIN l.customer_neighbors
             THEN Outcome(FALSE, l, sol, TRUE)
             ELSE LET tried == SwapNeighborLoop(l.customer_neighbors[customer1], 1, r1_idx,
                                                c1_pos, l, sol, p, capacity_penalty)
                  IN  IF tried.improvement THEN tried
                      ELSE SwapAnchorLoop(anchors, a + 1, tried.ls, sol, p, capacity_penalty)

\* LocalSearch::swap_neighborhood under one outcome of its shuffles
SwapNeighborhood(anchors, l, sol, p, capacity_penalty) ==
    SwapAnchorLoop(anchors, 1, l, sol, p, capacity_penalty)

-----------------------------------------------------------------------------
(* local_search/two_opt.rs *)

\* LocalSearch::evaluate_two_opt
EvaluateTwoOpt(sol, p, r_idx, i, j) ==
    LET customers == sol.routes[r_idx + 1].customers
        i_node == customers[i + 1]
        i_next == customers[i + 2]
        j_node == customers[j + 1]
        j_next == IF j + 1 < Len(customers) THEN customers[j + 2] ELSE p.depot_index
    IN  (GetDistance(p, i_node, j_node) + GetDistance(p, i_next, j_next))
        - (GetDistance(p, i_node, i_next) + GetDistance(p, j_node, j_next))

\* LocalSearch::apply_two_opt: reverses the positions i+1..=j
ApplyTwoOpt(sol, r_idx, i, j) ==
    [sol EXCEPT
        !.routes[r_idx + 1].customers =
            [k \in 1..Len(@) |-> IF k >= i + 2 /\ k <= j + 1 THEN @[i + j + 3 - k] ELSE @[k]],
        !.routes[r_idx + 1].modified = TRUE]

\* the traversal orders of two_opt_neighborhood: the routes shuffled, in each route of
\* at least 4 customers the positions i of 0..n-1 shuffled, and for each i the
\* positions j of i+2..n shuffled: sequences of <<route index, i, j>>
RECURSIVE TwoOptPairsOf(_, _, _, _)
TwoOptPairsOf(r, n, i_order, k) ==
    IF k > Len(i_order) THEN {<<>>}
    ELSE LET i == i_order[k]
             js == (i + 2)..(n - 1)
         IN  { [m \in 1..Cardinality(js) |-> <<r, i, jo[m]>>] \o rest :
                 jo \in Perms(js), rest \in TwoOptPairsOf(r, n, i_order, k + 1) }

RECURSIVE TwoOptMovesOf(_, _, _)
TwoOptMovesOf(sol, route_order, k) ==
    IF k > Len(route_order) THEN {<<>>}
    ELSE LET r == route_order[k]
             n == Len(sol.routes[r + 1].customers)
             here == IF n < 4 THEN {<<>>}
                     ELSE UNION { TwoOptPairsOf(r, n, io, 1) : io \in Perms(0..(n - 2)) }
         IN  { h \o rest : h \in here, rest \in TwoOptMovesOf(sol, route_order, k + 1) }

TwoOptOrders(sol) ==
    UNION { TwoOptMovesOf(sol, ro, 1) : ro \in Perms(0..(Len(sol.routes) - 1)) }

\* the loops of two_opt_neighborhood over the pairs (i, j) in the shuffled order
RECURSIVE TwoOptLoop(_, _, _, _, _, _)
TwoOptLoop(moves, k, l, sol, p, capacity_penalty) ==
    IF k > Len(moves) THEN Outcome(FALSE, l, sol, FALSE)
    ELSE LET r_idx == moves[k][1]
             i == moves[k][2]
             j == moves[k][3]
             customer == sol.routes[r_idx + 1].customers[i + 1]
         IN  IF ~IsMoveValid(l, customer, 2, r_idx)
             THEN TwoOptLoop(moves, k + 1, l, sol, p, capacity_penalty)
             ELSE LET stamped == StampMove(l, customer, 2, r_idx) IN
                  IF BelowMinusEps(RInt(EvaluateTwoOpt(sol, p, r_idx, i, j)))
                  THEN Moved(Outcome(TRUE, UpdateRouteTimestamp(stamped, r_idx),
                                     Evaluate(ApplyTwoOpt(sol, r_idx, i, j), p,
                                              capacity_penalty),
                                     FALSE),
                             "two_opt", r_idx, r_idx, i, j)
                  ELSE TwoOptLoop(moves, k + 1, stamped, sol, p, capacity_penalty)

\* LocalSearch::two_opt_neighborhood under one outcome of its shuffles
TwoOptNeighborhood(moves, l, sol, p, capacity_penalty) ==
    TwoOptLoop(moves, 1, l, sol, p, capacity_penalty)

-----------------------------------------------------------------------------
(* local_search/two_opt_star.rs *)

\* LocalSearch::evaluate_two_opt_star
EvaluateTwoOptStar(sol, p, r1_idx, r2_idx, i, j, capacity_penalty) ==
    LET r1 == sol.routes[r1_idx + 1]
        r2 == sol.routes[r2_idx + 1]
        customer1 == r1.customers[i + 1]
        customer2 == r2.customers[j + 1]
        r1_tail_load == SumSeq([k \in 1..(Len(r1.customers) - (i + 1)) |->
                                   p.demand[r1.customers[k + i + 1]]])
        r2_tail_load == SumSeq([k \in 1..(Len(r2.customers) - (j + 1)) |->
                                   p.demand[r2.customers[k + j + 1]]])
        r1_new_load == r1.load - r1_tail_load + r2_tail_load
        r2_new_load == r2.load - r2_tail_load + r1_tail_load
        next1 == IF i + 1 < Len(r1.customers) THEN r1.customers[i + 2] ELSE p.depot_index
        next2 == IF j + 1 < Len(r2.customers) THEN r2.customers[j + 2] ELSE p.depot_index
        old_dist == GetDistance(p, customer1, next1) + GetDistance(p, customer2, next2)
        new_dist == GetDistance(p, customer1, next2) + GetDistance(p, customer2, next1)
    IN  RAdd(RInt(new_dist - old_dist),
             RAdd(PenaltyDelta(capacity_penalty, r1.load, r1_new_load, p.vehicle_capacity),
                  PenaltyDelta(capacity_penalty, r2.load, r2_new_load, p.vehicle_capacity)))

\* LocalSearch::apply_two_opt_star: the tails after positions i and j change routes
ApplyTwoOptStar(sol, r1_idx, r2_idx, i, j) ==
    LET c1 == sol.routes[r1_idx + 1].customers
        c2 == sol.routes[r2_idx + 1].customers
        r1_tail == SubSeq(c1, i + 2, Len(c1))
        r2_tail == SubSeq(c2, j + 2, Len(c2))
    IN  [sol EXCEPT
            !.routes[r1_idx + 1].customers = SubSeq(c1, 1, i + 1) \o r2_tail,
            !.routes[r1_idx + 1].modified = TRUE,
            !.routes[r2_idx + 1].customers = SubSeq(c2, 1, j + 1) \o r1_tail,
            !.routes[r2_idx + 1].modified = TRUE]

\* the cuts two_opt_star_neighborhood visits for one shuffled route order: the pairs
\* r1_pos < r2_pos of non-empty routes, each with the positions i of r1 in order, as
\* a sequence of <<r1_idx, r2_idx, i>>
RECURSIVE TwoOptStarCuts(_, _, _, _, _)
TwoOptStarCuts(sol, route_order, r1_pos, r2_pos, i) ==
    IF r1_pos > Len(route_order) THEN <<>>
    ELSE IF r2_pos > Len(route_order)
         THEN TwoOptStarCuts(sol, route_order, r1_pos + 1, r1_pos + 2, 0)
    ELSE LET r1_idx == route_order[r1_pos]
             r2_idx == route_order[r2_pos]
         IN  IF sol.routes[r1_idx + 1].customers = <<>>
             THEN TwoOptStarCuts(sol, route_order, r1_pos + 1, r1_pos + 2, 0)
             ELSE IF sol.routes[r2_idx + 1].customers = <<>>
                     \/ i >= Len(sol.routes[r1_idx + 1].customers)
             THEN TwoOptStarCuts(sol, route_order, r1_pos, r2_pos + 1, 0)
             ELSE <<<<r1_idx, r2_idx, i>>>>
                  \o TwoOptStarCuts(sol, route_order, r1_pos, r2_pos, i + 1)

TwoOptStarOrders(sol) ==
    { TwoOptStarCuts(sol, ro, 1, 2, 0) : ro \in Perms(0..(Len(sol.routes) - 1)) }

\* the loop over the neighbours of customer1 that lie in r2
RECURSIVE TwoOptStarNeighborLoop(_, _, _, _, _, _, _, _, _)
TwoOptStarNeighborLoop(neighbors, k, r1_idx, r2_idx, i, l, sol, p, capacity_penalty) ==
    IF k > Len(neighbors) THEN Outcome(FALSE, l, sol, FALSE)
    ELSE LET customer1 == sol.routes[r1_idx + 1].customers[i + 1]
             r2_customers == sol.routes[r2_idx + 1].customers
         IN  IF neighbors[k] \notin Range(r2_customers)
                \/ ~IsMoveValid(l, customer1, 3, r2_idx)
             THEN TwoOptStarNeighborLoop(neighbors, k + 1, r1_idx, r2_idx, i, l, sol, p,
                                         capacity_penalty)
             ELSE LET j == PositionOf(r2_customers, neighbors[k])
                      stamped == StampMove(l, customer1, 3, r2_idx)
                      delta == EvaluateTwoOptStar(sol, p, r1_idx, r2_idx, i, j,
                                                  capacity_penalty)
                  IN  IF BelowMinusEps(delta)
                      THEN Moved(Outcome(TRUE,
                                         UpdateRouteTimestamp(
                                             UpdateRouteTimestamp(stamped, r1_idx), r2_idx),
                                         Evaluate(ApplyTwoOptStar(sol, r1_idx, r2_idx, i, j), p,
                                                  capacity_penalty),
                                         FALSE),
                                 "two_opt_star", r1_idx, r2_idx, i, j)
                      ELSE TwoOptStarNeighborLoop(neighbors, k + 1, r1_idx, r2_idx, i, stamped,
                                                  sol, p, capacity_penalty)

\* the loops over the cuts; customer_neighbors[&customer1] panics when the customer
\* has no entry
RECURSIVE TwoOptStarLoop(_, _, _, _, _, _)
TwoOptStarLoop(cuts, c, l, sol, p, capacity_penalty) ==
    IF c > Len(cuts) THEN Outcome(FALSE, l, sol, FALSE)
    ELSE LET r1_idx == cuts[c][1]
             r2_idx == cuts[c][2]
             i == cuts[c][3]
             customer1 == sol.routes[r1_idx + 1].customers[i + 1]
         IN  IF customer1 \notin DOMAIN l.customer_neighbors
             THEN Outcome(FALSE, l, sol, TRUE)
             ELSE LET tried == TwoOptStarNeighborLoop(l.customer_neighbors[customer1], 1,
                                                      r1_idx, r2_idx, i, l, sol, p,
                                                      capacity_penalty)
                  IN  IF tried.improvement THEN tried
                      ELSE TwoOptStarLoop(cuts, c + 1, tried.ls, sol, p, capacity_penalty)

\* LocalSearch::two_opt_star_neighborhood under one outcome of its shuffle
TwoOptStarNeighborhood(cuts, l, sol, p, capacity_penalty) ==
    TwoOptStarLoop(cuts, 1, l, sol, p, capacity_penalty)

-----------------------------------------------------------------------------
(* local_search/swap_star.rs *)

\* Angles are counted in quarter turns: PI is 2 and 2 PI is 4.  The customers of the
\* instances lie on the four half-axes around the depot, where atan2 gives 0, PI/2,
\* PI and -PI/2; a node at the depot's own coordinates gets atan2(0, 0) = 0.
PolarAngle(p, customer) ==
    LET dx == p.site[customer][1] - p.site[p.depot_index][1]
        dy == p.site[customer][2] - p.site[p.depot_index][2]
    IN  CASE dy = 0 /\ dx >= 0 -> 0
          [] dx = 0 /\ dy > 0 -> 1
          [] dy = 0 /\ dx < 0 -> 2
          [] dx = 0 /\ dy < 0 -> 3

\* the body of the loop of calculate_route_sectors for one route
RouteSector(r_idx, route, p) ==
    IF route.customers = <<>>
    THEN [route_index |-> r_idx, polar_min |-> 0, polar_max |-> 0]
    ELSE LET angles == {PolarAngle(p, route.customers[k]) : k \in 1..Len(route.customers)}
             min_angle == CHOOSE a \in angles : \A b \in angles : a <= b
             max_angle == CHOOSE a \in angles : \A b \in angles : a >= b
         IN  IF max_angle - min_angle > 2
             THEN [route_index |-> r_idx, polar_min |-> max_angle, polar_max |-> min_angle + 4]
             ELSE [route_index |-> r_idx, polar_min |-> min_angle, polar_max |-> max_angle]

\* LocalSearch::calculate_route_sectors
CalculateRouteSectors(l, sol, p) ==
    [l EXCEPT !.route_sectors =
        [k \in 1..Len(sol.routes) |-> RouteSector(k - 1, sol.routes[k], p)]]

\* LocalSearch::sectors_intersect
SectorsIntersect(s1, s2) ==
    IF s1.polar_min = s1.polar_max \/ s2.polar_min = s2.polar_max THEN FALSE
    ELSE ~(s1.polar_max < s2.polar_min \/ s2.polar_max < s1.polar_min)

\* LocalSearch::find_top_insertion_positions: the positions by insertion cost (a
\* stable sort), the first three
FindTopInsertionPositions(customer, route, p) ==
    LET n == Len(route.customers)
        cost(i) == CalculateInsertionCost(route, customer, i, p)
        sorted == CHOOSE s \in Perms(0..n) :
                     \A a, b \in 1..(n + 1) :
                        a < b => (cost(s[a]) < cost(s[b])
                                  \/ (cost(s[a]) = cost(s[b]) /\ s[a] < s[b]))
    IN  SubSeq(sorted, 1, Min2(3, n + 1))

\* the positions evaluate_swap_star tries for one route: the top positions, and the
\* original position when it is not among them
CheckPositions(top_positions, pos) ==
    IF pos \in Range(top_positions) THEN top_positions ELSE Append(top_positions, pos)

\* the index after the removal of the customer at pos
AdjustedPos(insert_pos, pos) == IF insert_pos > pos THEN insert_pos - 1 ELSE insert_pos

\* LocalSearch::evaluate_swap_star: the best delta with its positions.  The temporary
\* routes carry the distance 0.0 that create_temp_route gives them.
EvaluateSwapStar(sol, p, r1_idx, r2_idx, pos1, pos2, top_positions_in_r1, top_positions_in_r2, capacity_penalty) ==
    LET r1 == sol.routes[r1_idx + 1]
        r2 == sol.routes[r2_idx + 1]
        customer1 == r1.customers[pos1 + 1]
        customer2 == r2.customers[pos2 + 1]
        demand1 == p.demand[customer1]
        demand2 == p.demand[customer2]
        check_positions == CheckPositions(top_positions_in_r2, pos2)
        check_positions_r1 == CheckPositions(top_positions_in_r1, pos1)
        n1 == Len(check_positions_r1)
        \* the pairs in the order of the two nested loops
        total == [m \in 0..(Len(check_positions) * n1 - 1) |->
                    LET insert_pos2 == check_positions[(m \div n1) + 1]
                        insert_pos1 == check_positions_r1[(m % n1) + 1]
                        r1_temp == CreateTempRoute(r1, pos1, customer2,
                                                   AdjustedPos(insert_pos1, pos1))
                        r2_temp == CreateTempRoute(r2, pos2, customer1,
                                                   AdjustedPos(insert_pos2, pos2))
                        r1_delta == r1_temp.distance - r1.distance
                        r2_delta == r2_temp.distance - r2.distance
                    IN  RAdd(RInt(r1_delta + r2_delta),
                             RAdd(PenaltyDelta(capacity_penalty, r1.load,
                                               r1.load - demand1 + demand2,
                                               p.vehicle_capacity),
                                  PenaltyDelta(capacity_penalty, r2.load,
                                               r2.load - demand2 + demand1,
                                               p.vehicle_capacity)))]
        best == FirstMin(total, 0, Len(check_positions) * n1 - 1)
    IN  [delta |-> total[best],
         best_pos1 |-> check_positions_r1[(best % n1) + 1],
         best_pos2 |-> check_positions[(best \div n1) + 1]]

\* LocalSearch::apply_swap_star
ApplySwapStar(sol, r1_idx, r2_idx, pos1, pos2, insert_pos1, insert_pos2) ==
    LET customer1 == sol.routes[r1_idx + 1].customers[pos1 + 1]
        customer2 == sol.routes[r2_idx + 1].customers[pos2 + 1]
    IN  [sol EXCEPT
            !.routes[r1_idx + 1].customers =
                InsertAt(RemoveAt(@, pos1), AdjustedPos(insert_pos1, pos1), customer2),
            !.routes[r1_idx + 1].modified = TRUE,
            !.routes[r2_idx + 1].customers =
                InsertAt(RemoveAt(@, pos2), AdjustedPos(insert_pos2, pos2), customer1),
            !.routes[r2_idx + 1].modified = TRUE]

\* the loop over the customers of r2 for the customer at pos1 of r1
RECURSIVE SwapStarInnerLoop(_, _, _, _, _, _, _, _)
SwapStarInnerLoop(r1_idx, r2_idx, pos1, pos2, l, sol, p, capacity_penalty) ==
    LET r1 == sol.routes[r1_idx + 1]
        r2 == sol.routes[r2_idx + 1]
    IN  IF pos2 >= Len(r2.customers) THEN Outcome(FALSE, l, sol, FALSE)
        ELSE LET move == EvaluateSwapStar(
                             sol, p, r1_idx, r2_idx, pos1, pos2,
                             FindTopInsertionPositions(r2.customers[pos2 + 1], r1, p),
                             FindTopInsertionPositions(r1.customers[pos1 + 1], r2, p),
                             capacity_penalty)
             IN  IF BelowMinusEps(move.delta)
                 THEN Moved(Outcome(TRUE,
                                    UpdateRouteTimestamp(UpdateRouteTimestamp(l, r1_idx),
                                                         r2_idx),
                                    Evaluate(ApplySwapStar(sol, r1_idx, r2_idx, pos1, pos2,
                                                           move.best_pos1, move.best_pos2),
                                             p, capacity_penalty),
                                    FALSE),
                            "swap_star", r1_idx, r2_idx,
                            <<pos1, move.best_pos1>>, <<pos2, move.best_pos2>>)
                 ELSE SwapStarInnerLoop(r1_idx, r2_idx, pos1, pos2 + 1, l, sol, p,
                                        capacity_penalty)

\* the loops over the ordered pairs of routes and the customers of r1, in index order
RECURSIVE SwapStarLoop(_, _, _, _, _, _, _)
SwapStarLoop(r1_idx, r2_idx, pos1, l, sol, p, capacity_penalty) ==
    LET routes == Len(sol.routes) IN
    IF r1_idx >= routes THEN Outcome(FALSE, l, sol, FALSE)
    ELSE IF r2_idx >= routes \/ sol.routes[r1_idx + 1].customers = <<>>
         THEN SwapStarLoop(r1_idx + 1, 0, 0, l, sol, p, capacity_penalty)
    ELSE IF r1_idx = r2_idx
            \/ sol.routes[r2_idx + 1].customers = <<>>
            \/ ~SectorsIntersect(l.route_sectors[r1_idx + 1], l.route_sectors[r2_idx + 1])
            \/ pos1 >= Len(sol.routes[r1_idx + 1].customers)
         THEN SwapStarLoop(r1_idx, r2_idx + 1, 0, l, sol, p, capacity_penalty)
    ELSE LET customer1 == sol.routes[r1_idx + 1].customers[pos1 + 1] IN
         IF ~IsMoveValid(l, customer1, 4, r2_idx)
         THEN SwapStarLoop(r1_idx, r2_idx, pos1 + 1, l, sol, p, capacity_penalty)
         ELSE LET tried == SwapStarInnerLoop(r1_idx, r2_idx, pos1, 0,
                                             StampMove(l, customer1, 4, r2_idx), sol, p,
                                             capacity_penalty)
              IN  IF tried.improvement THEN tried
                  ELSE SwapStarLoop(r1_idx, r2_idx, pos1 + 1, tried.ls, sol, p,
                                    capacity_penalty)

\* LocalSearch::swap_star_neighborhood
SwapStarNeighborhood(l, sol, p, capacity_penalty) ==
    SwapStarLoop(0, 0, 0, CalculateRouteSectors(l, sol, p), sol, p, capacity_penalty)

-----------------------------------------------------------------------------
(* individual.rs *)

\* a Vec built element by element
VecOf(f) == f \o <<>>

\* Individual::new
NewIndividual(sol) ==
    [ solution |-> sol, rank_feasibility |-> 0, rank_diversity |-> 0,
      biased_fitness |-> RInt(0), common_pairs |-> <<>> ]

\* a count of the positions at which both tours hold the same ordered pair
CalculateCommonPairsAtPosition(this, other) ==
    LET t == this.solution.giant_tour
        o == other.solution.giant_tour
    IN  IF t = <<>> \/ o = <<>> THEN 0
        ELSE Cardinality({i \in 1..(Min2(Len(t), Len(o)) - 1) :
                             <<t[i], t[i + 1]>> = <<o[i], o[i + 1]>>})

\* Individual::calculate_common_pairs: the consecutive pairs of this tour that are
\* consecutive in the other tour
CalculateCommonPairs(this, other) ==
    LET t == this.solution.giant_tour
        o == other.solution.giant_tour
        other_pairs == {<<o[i], o[i + 1]>> : i \in 1..(Len(o) - 1)}
    IN  IF t = <<>> \/ o = <<>> THEN 0
        ELSE Cardinality({i \in 1..(Len(t) - 1) : <<t[i], t[i + 1]>> \in other_pairs})

\* the indices of a sequence of rationals in the order a stable ascending sort gives
SortedOrder(keys) ==
    LET place(i) == Cardinality({j \in 1..Len(keys) :
                                    \/ RLess(keys[j], keys[i])
                                    \/ (~RLess(keys[i], keys[j]) /\ j < i)}) + 1
    IN  VecOf([k \in 1..Len(keys) |-> CHOOSE i \in 1..Len(keys) : place(i) = k])

\* Individual::calculate_diversity_contribution: the mean of the closest_count largest
\* entries of common_pairs
CalculateDiversityContribution(this, closest_count) ==
    LET cp == this.common_pairs
        desc == SortedOrder([k \in 1..Len(cp) |-> RInt(-cp[k])])
        count == Min2(closest_count, Len(cp))
    IN  IF cp = <<>> \/ closest_count = 0 THEN RInt(0)
        ELSE Rat(SumSeq([k \in 1..count |-> cp[desc[k]]]), count)

\* Individual::calculate_biased_fitness
CalculateBiasedFitness(this, elite_proportion) ==
    [this EXCEPT !.biased_fitness =
        RAdd(RInt(this.rank_feasibility),
             RScale(RSub(RInt(1), elite_proportion), this.rank_diversity))]

\* Individual::is_clone_of
IsCloneOf(this, other) == this.solution.giant_tour = other.solution.giant_tour

-----------------------------------------------------------------------------
(* population.rs *)

\* Population::new
NewPopulation(config) ==
    [ feasible_individuals |-> <<>>,
      infeasible_individuals |-> <<>>,
      capacity_penalty |-> config.initial_capacity_penalty,
      min_pop_size |-> config.min_pop_size,
      max_pop_size |-> config.min_pop_size + config.generation_size,
      n_closest |-> config.n_closest,
      target_feasible_ratio |-> config.target_feasible_ratio,
      n_elite |-> config.n_elite ]

\* an insertion that sorts by the solution's excess capacity instead of its flag
InsertIndividualByExcess(pop, individual) ==
    IF individual.solution.excess_capacity = 0
    THEN [pop EXCEPT !.feasible_individuals = Append(@, individual)]
    ELSE [pop EXCEPT !.infeasible_individuals = Append(@, individual)]

\* Population::insert_individual
InsertIndividual(pop, individual) ==
    IF individual.solution.is_feasible
    THEN [pop EXCEPT !.feasible_individuals = Append(@, individual)]
    ELSE [pop EXCEPT !.infeasible_individuals = Append(@, individual)]

\* Population::get_pop_size
GetPopSize(pop) == Len(pop.feasible_individuals) + Len(pop.infeasible_individuals)

\* one half of update_feasibility_ranks: sort by cost, rank by position
FeasibilityRanks(individuals, order) ==
    VecOf([k \in 1..Len(individuals) |->
              [individuals[order[k]] EXCEPT !.rank_feasibility = k - 1]])

RankByCost(individuals) ==
    FeasibilityRanks(individuals,
                     SortedOrder(VecOf([k \in 1..Len(individuals) |->
                                           individuals[k].solution.cost])))

\* Population::calculate_common_pairs for one subpopulation
WithCommonPairs(individuals) ==
    VecOf([i \in 1..Len(individuals) |->
        [individuals[i] EXCEPT !.common_pairs =
            VecOf([j \in 1..Len(individuals) |->
                IF i # j THEN CalculateCommonPairs(individuals[i], individuals[j]) ELSE 0])]])

\* the ranks assign_diversity_ranks gives for the sorted order of the contributions
DiversityRanks(individuals, order) ==
    VecOf([i \in 1..Len(individuals) |->
              [individuals[i] EXCEPT !.rank_diversity =
                  (CHOOSE r \in 1..Len(individuals) : order[r] = i) - 1]])

\* Population::assign_diversity_ranks for one subpopulation
AssignDiversityRanks(individuals, n_closest) ==
    DiversityRanks(individuals,
                   SortedOrder(VecOf([k \in 1..Len(individuals) |->
                       CalculateDiversityContribution(individuals[k], n_closest)])))

\* update_feasibility_ranks and update_diversity_measures for one subpopulation
RankSubpop(individuals, n_closest) ==
    AssignDiversityRanks(WithCommonPairs(RankByCost(individuals)), n_closest)

\* Population::update_biased_fitness for one subpopulation
UpdateBiasedFitness(individuals, elite_proportion) ==
    VecOf([k \in 1..Len(individuals) |->
              CalculateBiasedFitness(individuals[k], elite_proportion)])

\* update_ranks once both subpopulations are ranked
WithRanked(pop, feasible, infeasible) ==
    [pop EXCEPT
        !.feasible_individuals =
            UpdateBiasedFitness(feasible, Rat(pop.n_elite, Len(feasible) + Len(infeasible))),
        !.infeasible_individuals =
            UpdateBiasedFitness(infeasible, Rat(pop.n_elite, Len(feasible) + Len(infeasible)))]

\* Population::update_ranks: feasibility ranks, diversity measures, biased fitness
UpdateRanks(pop) ==
    WithRanked(pop, RankSubpop(pop.feasible_individuals, pop.n_closest),
                    RankSubpop(pop.infeasible_individuals, pop.n_closest))

\* the first individual of least cost
FirstBest(individuals) ==
    individuals[FirstMin([k \in 0..(Len(individuals) - 1) |-> individuals[k + 1].solution.cost],
                         0, Len(individuals) - 1) + 1]

\* Population::get_best_feasible_solution: the first individual of least cost; the
\* empty sequence is None
GetBestFeasibleSolution(pop) ==
    IF pop.feasible_individuals = <<>> THEN <<>>
    ELSE <<FirstBest(pop.feasible_individuals).solution>>

\* Population::binary_tournament_selection: the individuals it can return, each as
\* <<feasible, index>>; no individual when both subpopulations are empty (a panic)
TournamentWinners(pop) ==
    LET sides == IF pop.feasible_individuals = <<>> THEN {FALSE}
                 ELSE IF pop.infeasible_individuals = <<>> THEN {TRUE}
                 ELSE BOOLEAN
        subpop(use_feasible) ==
            IF use_feasible THEN pop.feasible_individuals ELSE pop.infeasible_individuals
        winner(sp, idx1, idx2) ==
            IF RLeq(sp[idx1 + 1].biased_fitness, sp[idx2 + 1].biased_fitness)
            THEN idx1 ELSE idx2
        draws(sp) == { d \in (0..(Len(sp) - 1)) \X (0..(Len(sp) - 1)) :
                         d[1] # d[2] \/ Len(sp) = 1 }
    IN  UNION { { <<side, winner(subpop(side), d[1], d[2])>> : d \in draws(subpop(side)) } :
                side \in sides }

\* the individual a tournament winner refers to
IndividualAt(pop, ref) ==
    IF ref[1] THEN pop.feasible_individuals[ref[2] + 1]
    ELSE pop.infeasible_individuals[ref[2] + 1]

\* a size test that lets a bag grow one individual beyond max_pop_size
ShouldManageSizeLate(pop) ==
    \/ Len(pop.feasible_individuals) > pop.max_pop_size + 1
    \/ Len(pop.infeasible_individuals) > pop.max_pop_size + 1

\* Population::should_manage_size
ShouldManageSize(pop) ==
    \/ Len(pop.feasible_individuals) > pop.max_pop_size
    \/ Len(pop.infeasible_individuals) > pop.max_pop_size

\* the clone-marking loops of select_survivors_for_subpop: to_remove after the pair
\* (i, j) and all pairs before it, positions counted from 0
RECURSIVE MarkClones(_, _, _, _, _)
MarkClones(individuals, min_pop_size, i, j, to_remove) ==
    LET n == Len(individuals)
        enough(marked) == n - Cardinality(marked) <= min_pop_size
    IN  IF i >= n THEN to_remove
        ELSE IF i \in to_remove THEN MarkClones(individuals, min_pop_size, i + 1, i + 2, to_remove)
        ELSE IF j >= n
             THEN IF enough(to_remove) THEN to_remove
                  ELSE MarkClones(individuals, min_pop_size, i + 1, i + 2, to_remove)
        ELSE IF j \notin to_remove /\ IsCloneOf(individuals[i + 1], individuals[j + 1])
             THEN IF enough(to_remove \cup {j}) THEN to_remove \cup {j}
                  ELSE MarkClones(individuals, min_pop_size, i, j + 1, to_remove \cup {j})
        ELSE MarkClones(individuals, min_pop_size, i, j + 1, to_remove)

\* the loop that marks the worst individuals, from position i down to position 1
RECURSIVE MarkWorst(_, _, _, _)
MarkWorst(n, min_pop_size, i, to_remove) ==
    IF n - Cardinality(to_remove) > min_pop_size /\ i > 0
    THEN MarkWorst(n, min_pop_size, i - 1, to_remove \cup {i})
    ELSE to_remove

\* the positions of a sequence outside a set, in order
RECURSIVE Keep(_, _, _)
Keep(individuals, to_remove, k) ==
    IF k > Len(individuals) THEN <<>>
    ELSE (IF (k - 1) \in to_remove THEN <<>> ELSE <<individuals[k]>>)
         \o Keep(individuals, to_remove, k + 1)

\* a Vec in a given order of its positions
Reordered(individuals, order) ==
    VecOf([k \in 1..Len(individuals) |-> individuals[order[k]]])

\* select_survivors_for_subpop once the subpopulation is sorted by biased fitness
RemoveFromSorted(sorted, min_pop_size) ==
    Keep(sorted,
         MarkWorst(Len(sorted), min_pop_size, Len(sorted) - 1,
                   MarkClones(sorted, min_pop_size, 0, 1, {})),
         1)

\* a selection whose sort puts the highest biased fitness first
SelectSurvivorsForSubpopDescending(individuals, min_pop_size) ==
    IF Len(individuals) <= min_pop_size THEN individuals
    ELSE RemoveFromSorted(
            Reordered(individuals,
                      [k \in 1..Len(individuals) |->
                          SortedOrder(VecOf([k2 \in 1..Len(individuals) |->
                                                individuals[k2].biased_fitness]))[Len(individuals) + 1 - k]]),
            min_pop_size)

\* Population::select_survivors_for_subpop
SelectSurvivorsForSubpop(individuals, min_pop_size) ==
    IF Len(individuals) <= min_pop_size THEN individuals
    ELSE RemoveFromSorted(
            Reordered(individuals,
                      SortedOrder(VecOf([k \in 1..Len(individuals) |->
                                            individuals[k].biased_fitness]))),
            min_pop_size)

\* Population::select_survivors
SelectSurvivors(pop) ==
    [pop EXCEPT
        !.feasible_individuals = SelectSurvivorsForSubpop(@, pop.min_pop_size),
        !.infeasible_individuals = SelectSurvivorsForSubpop(@, pop.min_pop_size)]

\* the factor 1.2 of adjust_penalties and its floor 0.1
PenaltyFactor == [num |-> 6, den |-> 5]

PenaltyFloor == [num |-> 1, den |-> 10]

\* an adjustment that also raises the penalty when the ratio equals the target
AdjustPenaltiesInclusive(pop) ==
    LET total == GetPopSize(pop)
        current_ratio == Rat(Len(pop.feasible_individuals), total)
        adjusted == IF RLeq(current_ratio, pop.target_feasible_ratio)
                    THEN RMul(pop.capacity_penalty, PenaltyFactor)
                    ELSE RMul(pop.capacity_penalty,
                              [num |-> PenaltyFactor.den, den |-> PenaltyFactor.num])
    IN  IF total = 0 THEN pop
        ELSE [pop EXCEPT !.capacity_penalty =
                 IF RLess(adjusted, PenaltyFloor) THEN PenaltyFloor ELSE adjusted]

\* Population::adjust_penalties
AdjustPenalties(pop) ==
    LET total == GetPopSize(pop)
        current_ratio == Rat(Len(pop.feasible_individuals), total)
        adjusted == IF RLess(current_ratio, pop.target_feasible_ratio)
                    THEN RMul(pop.capacity_penalty, PenaltyFactor)
                    ELSE RMul(pop.capacity_penalty,
                              [num |-> PenaltyFactor.den, den |-> PenaltyFactor.num])
    IN  IF total = 0 THEN pop
        ELSE [pop EXCEPT !.capacity_penalty =
                 IF RLess(adjusted, PenaltyFloor) THEN PenaltyFloor ELSE adjusted]

-----------------------------------------------------------------------------
(* genetic.rs *)

\* the fill loop of Genetic::crossover, positions counted from 0
RECURSIVE FillFromParent(_, _, _, _, _)
FillFromParent(offspring_tour, used, j, p2_idx, p2_tour) ==
    LET tour_size == Len(offspring_tour)
        c == p2_tour[p2_idx + 1]
    IN  IF ~(Cardinality(used) < tour_size) THEN offspring_tour
        ELSE IF c \notin used
             THEN FillFromParent([offspring_tour EXCEPT ![j + 1] = c], used \cup {c},
                                 (j + 1) % tour_size, (p2_idx + 1) % Len(p2_tour), p2_tour)
        ELSE FillFromParent(offspring_tour, used, j, (p2_idx + 1) % Len(p2_tour), p2_tour)

\* a crossover that fills the offspring from its first position instead of the
\* position after the copied segment
CrossoverFromFirst(parent1, parent2, cut1, cut2) ==
    LET p1_tour == parent1.solution.giant_tour
        p2_tour == parent2.solution.giant_tour
        tour_size == Len(p1_tour)
        from == Min2(cut1, cut2)
        to == Max2(cut1, cut2)
        copied == [k \in 1..tour_size |->
                      IF from <= k - 1 /\ k - 1 <= to THEN p1_tour[k] ELSE 0]
        used == {p1_tour[k + 1] : k \in from..to}
    IN  IF p1_tour = <<>> \/ p2_tour = <<>> THEN NewSolution
        ELSE FromGiantTour(FillFromParent(copied, used, 0,
                                          (to + 1) % Len(p2_tour), p2_tour))

\* Genetic::crossover (ordered crossover) for the cutting points cut1 and cut2
Crossover(parent1, parent2, cut1, cut2) ==
    LET p1_tour == parent1.solution.giant_tour
        p2_tour == parent2.solution.giant_tour
        tour_size == Len(p1_tour)
        from == Min2(cut1, cut2)
        to == Max2(cut1, cut2)
        copied == [k \in 1..tour_size |->
                      IF from <= k - 1 /\ k - 1 <= to THEN p1_tour[k] ELSE 0]
        used == {p1_tour[k + 1] : k \in from..to}
    IN  IF p1_tour = <<>> \/ p2_tour = <<>> THEN NewSolution
        ELSE FromGiantTour(FillFromParent(copied, used, (to + 1) % tour_size,
                                          (to + 1) % Len(p2_tour), p2_tour))

-----------------------------------------------------------------------------
(* lib.rs *)

\* HgsAlgorithm::new; best_solution is an Option, the empty sequence is None
NewHgs(config) ==
    [ population |-> NewPopulation(config),
      config |-> config,
      best_solution |-> <<>>,
      iterations |-> 0,
      iterations_without_improvement |-> 0 ]

\* the individuals Population::initialize builds from the shuffled tours it draws
InitialIndividuals(pop, tours, p) ==
    VecOf([k \in 1..Len(tours) |->
              NewIndividual(Evaluate(FromGiantTour(tours[k]), p, pop.capacity_penalty))])

\* insert_individual for each of them in turn
InsertTours(pop, individuals) ==
    [pop EXCEPT
        !.feasible_individuals =
            @ \o SelectSeq(individuals, LAMBDA i : i.solution.is_feasible),
        !.infeasible_individuals =
            @ \o SelectSeq(individuals, LAMBDA i : ~i.solution.is_feasible)]

PopulationInitialize(pop, tours, p) ==
    UpdateRanks(InsertTours(pop, InitialIndividuals(pop, tours, p)))

\* the part of should_terminate that does not read the clock
IterationsExhausted(h) ==
    h.iterations_without_improvement >= h.config.max_iterations_without_improvement

\* the end of the loop body of run: the counters, the best solution, the size
\* management and the penalty adjustment, given the best feasible solutions before
\* and after the insertion
CloseIteration(h, inserted, previous_best, current_best) ==
    [h EXCEPT
        !.population =
            AdjustPenalties(IF ShouldManageSize(inserted)
                            THEN SelectSurvivors(inserted) ELSE inserted),
        !.iterations = @ + 1,
        !.best_solution =
            IF /\ previous_best # <<>> /\ current_best # <<>>
               /\ RLess(current_best[1].cost, previous_best[1].cost)
            THEN current_best ELSE @,
        !.iterations_without_improvement =
            IF previous_best = <<>> \/ current_best = <<>> THEN @
            ELSE IF RLess(current_best[1].cost, previous_best[1].cost) THEN 0
            ELSE @ + 1]

\* the loop body of run after educate: insert the offspring, then the above
InsertOffspring(h, inserted) ==
    CloseIteration(h, inserted, GetBestFeasibleSolution(h.population),
                   GetBestFeasibleSolution(inserted))

AfterEducate(h, offspring) ==
    InsertOffspring(h, InsertIndividual(h.population, NewIndividual(offspring)))

-----------------------------------------------------------------------------
(* The states the specifications start from *)

\* LocalSearch::new
NewLocalSearch ==
    [ route_timestamps |-> <<>>,
      move_timestamps |-> EmptyMap,
      move_count |-> 0,
      route_sectors |-> <<>>,
      customer_neighbors |-> EmptyMap ]

NoOp == [op |-> "none"]

\* no HgsAlgorithm is involved
NoHgs == [population |-> <<>>]

\* the instances with at most MaxCustomers customers
Problems == UNION {ProblemsOfSize(n) : n \in 0..MaxCustomers}

-----------------------------------------------------------------------------
(* Specification SplitSpec: Split::split on every giant tour of every instance *)

SplitInit ==
    /\ problem \in Problems
    /\ \E t \in Perms(Customers(problem)) : solution = FromGiantTour(t)
    /\ penalty = RInt(1)
    /\ ls = NewLocalSearch
    /\ hgs = NoHgs
    /\ improvement = FALSE
    /\ pc = "split"
    /\ before = NewSolution
    /\ start = NewSolution
    /\ last = NoOp

\* the call Split::split(&mut solution, &problem)
SplitStep ==
    /\ pc = "split"
    /\ solution' = Split(solution, problem)
    /\ before' = solution
    /\ last' = [op |-> "split"]
    /\ pc' = "split_done"
    /\ UNCHANGED <<problem, penalty, ls, hgs, improvement, start>>

SplitNext == SplitStep

SplitSpec == SplitInit /\ [][SplitNext]_vars

-----------------------------------------------------------------------------
(* Claims about Split *)

\* the ways of cutting a tour into consecutive non-empty segments
RECURSIVE Segmentations(_)
Segmentations(t) ==
    IF t = <<>> THEN {<<>>}
    ELSE UNION { { <<SubSeq(t, 1, k)>> \o rest :
                     rest \in Segmentations(SubSeq(t, k + 1, Len(t))) } : k \in 1..Len(t) }

\* the segmentations whose every segment fits the vehicle
CapacitySegmentations(t, p) ==
    { sg \in Segmentations(t) :
        \A k \in 1..Len(sg) : DemandOf(sg[k], p) <= p.vehicle_capacity }

SegmentationLength(sg, p) == SumSeq([k \in 1..Len(sg) |-> TourLength(sg[k], p)])

\* the routes' real total length and real demands, whatever the caches say
RealDistance(sol, p) ==
    SumSeq([k \in 1..Len(sol.routes) |-> TourLength(sol.routes[k].customers, p)])

RealExcess(sol, p) ==
    SumSeq([k \in 1..Len(sol.routes) |->
        Max2(0, DemandOf(sol.routes[k].customers, p) - p.vehicle_capacity)])

\* every customer of the set is at exactly one position of exactly one route,
\* and the routes hold nothing else
ServesExactlyOnce(routes, customers) ==
    /\ \A c \in customers : Count(Flatten(routes), c) = 1
    /\ Range(Flatten(routes)) \subseteq customers
    /\ \A c \in customers :
          Cardinality({k \in 1..Len(routes) : c \in Range(routes[k].customers)}) = 1

\* C2: after Split on a giant tour that is a permutation of the customers, every
\* customer of the tour is in exactly one route exactly once and the routes together
\* hold the same multiset of customers as the giant tour.
C2_SplitKeepsCustomers ==
    pc = "split_done" =>
        /\ ServesExactlyOnce(solution.routes, Range(solution.giant_tour))
        /\ \A c \in 0..problem.n :
              Count(Flatten(solution.routes), c) = Count(solution.giant_tour, c)
        /\ solution.giant_tour = before.giant_tour

C2_Witness ==
    /\ pc = "split_done"
    /\ Len(solution.giant_tour) = MaxCustomers
    /\ Len(solution.routes) >= 2

\* C3: when every single customer's demand is at most the capacity, every route that
\* Split produces has a total demand of at most the capacity.
C3_SplitRespectsCapacity ==
    (pc = "split_done"
       /\ \A c \in Range(solution.giant_tour) : problem.demand[c] <= problem.vehicle_capacity)
    => \A k \in 1..Len(solution.routes) :
          DemandOf(solution.routes[k].customers, problem) <= problem.vehicle_capacity

\* C4: the total distance of the routes Split produces is the minimum over all cuts of
\* the tour into consecutive segments whose demand does not exceed the capacity.
C4_SplitOptimal ==
    (pc = "split_done" /\ CapacitySegmentations(solution.giant_tour, problem) # {})
    => /\ \E sg \in CapacitySegmentations(solution.giant_tour, problem) :
             SegmentationLength(sg, problem) = RealDistance(solution, problem)
       /\ \A sg \in CapacitySegmentations(solution.giant_tour, problem) :
             RealDistance(solution, problem) <= SegmentationLength(sg, problem)

-----------------------------------------------------------------------------
(* Specification EducateSpec: LocalSearch::educate, one neighbourhood per step, on  *)
(* solutions whose routes were built as Split builds them *)

\* a route built as Split's reconstruction builds it: the customers, then
\* calculate_load and calculate_distance
BuiltRoute(customers, p) ==
    CalculateDistance(CalculateLoad([NewRoute EXCEPT !.customers = customers], p), p)

\* a solution with the given routes, evaluated and with its giant tour updated (the
\* end of Split::split, and create_test_solution of the local search tests)
BuiltSolution(segments, p) ==
    MergeRoutes(Evaluate([NewSolution EXCEPT
                             !.routes = [k \in 1..Len(segments) |->
                                            BuiltRoute(segments[k], p)]],
                         p, RInt(1)))

\* the customers of the instances educate is run on lie on three of the half-axes
EducateSites == Sites \ {<<0, -4>>}

\* instances of up to MaxCustomers customers
SmallProblems ==
    UNION { { NewProblem(s, d, 0, MaxCapacity) :
                s \in [1..n -> EducateSites], d \in [1..n -> 1..MaxDemand] } :
            n \in 1..MaxCustomers }

\* instances with one customer more, in two layouts.  In the first the customers
\* alternate between two sites, the ones at the first site have the largest demand
\* and the others demand 1.
AlternatingProblems ==
    { NewProblem([k \in 1..(MaxCustomers + 1) |-> s[((k - 1) % 2) + 1]],
                 [k \in 1..(MaxCustomers + 1) |-> IF k % 2 = 1 THEN MaxDemand ELSE 1],
                 0, MaxCapacity) :
        s \in [1..2 -> EducateSites] }

\* In the second the customers lie on three different sites, the second and the third
\* customer together, and the first two have the largest demand and the others 1.
ClusteredProblems ==
    { NewProblem([k \in 1..(MaxCustomers + 1) |->
                     IF k = 1 THEN s[1] ELSE IF k <= 3 THEN s[2] ELSE s[3]],
                 [k \in 1..(MaxCustomers + 1) |-> IF k <= 2 THEN MaxDemand ELSE 1],
                 0, MaxCapacity) :
        s \in Perms(EducateSites) }

LargeProblems == AlternatingProblems \cup ClusteredProblems

EducateProblems == SmallProblems \cup LargeProblems

\* the penalties educate is run with: the initial one, and a high one as repair uses
Penalties == {RInt(1), RInt(HighPenalty)}

EducateInit ==
    /\ problem \in EducateProblems
    /\ \E sg \in Segmentations([k \in 1..problem.n |-> k]) :
          solution = BuiltSolution(sg, problem)
    /\ \/ pc = "educate" /\ penalty \in Penalties
       \/ pc = "repair" /\ penalty = RInt(1)
    /\ ls = NewLocalSearch
    /\ hgs = NoHgs
    /\ improvement = FALSE
    /\ before = NewSolution
    /\ start = NewSolution
    /\ last = NoOp

\* the penalty LocalSearch::repair hands to educate
RepairPenalty(sol) ==
    IF sol.excess_capacity > 0
    THEN Rat(10 * sol.cost.num, sol.cost.den * sol.excess_capacity)
    ELSE RInt(HighPenalty)

\* LocalSearch::repair up to its call of educate
Repair ==
    /\ pc = "repair"
    /\ penalty' = RepairPenalty(solution)
    /\ pc' = "educate"
    /\ last' = [op |-> "repair"]
    /\ UNCHANGED <<problem, solution, ls, hgs, improvement, before, start>>

\* educate up to its loop: initialize_tracking, preprocess_neighbors when the map is
\* empty, the initial evaluation, and "improvement = true"
EducateEnter ==
    /\ pc = "educate"
    /\ LET tracked == InitializeTracking(ls, solution) IN
       ls' = IF DOMAIN tracked.customer_neighbors = {}
             THEN PreprocessNeighbors(tracked, problem) ELSE tracked
    /\ solution' = Evaluate(solution, problem, penalty)
    /\ improvement' = TRUE
    /\ pc' = "relocate"
    /\ before' = solution
    /\ start' = solution
    /\ last' = [op |-> "evaluate"]
    /\ UNCHANGED <<problem, penalty, hgs>>

\* one neighbourhood of the sweep: "improvement |= neighbourhood(...)"
Sweep(out, name, flag, next_pc) ==
    /\ ls' = Compact(out.ls)
    /\ solution' = out.solution
    /\ improvement' = (flag \/ out.improvement)
    /\ pc' = IF out.panicked THEN "panicked" ELSE next_pc
    /\ before' = solution
    /\ last' = [op |-> name, accepted |-> out.improvement, move |-> out.move]
    /\ UNCHANGED <<problem, penalty, hgs, start>>

\* the loop test, "improvement = false", and relocate_neighborhood
EducateRelocate ==
    /\ pc = "relocate"
    /\ improvement
    /\ \E anchors \in AnchorOrders(solution) :
          Sweep(RelocateNeighborhood(anchors, ls, solution, problem, penalty),
                "relocate", FALSE, "swap")

EducateSwap ==
    /\ pc = "swap"
    /\ \E anchors \in AnchorOrders(solution) :
          Sweep(SwapNeighborhood(anchors, ls, solution, problem, penalty),
                "swap", improvement, "two_opt")

EducateTwoOpt ==
    /\ pc = "two_opt"
    /\ \E moves \in TwoOptOrders(solution) :
          Sweep(TwoOptNeighborhood(moves, ls, solution, problem, penalty),
                "two_opt", improvement, "two_opt_star")

EducateTwoOptStar ==
    /\ pc = "two_opt_star"
    /\ \E cuts \in TwoOptStarOrders(solution) :
          Sweep(TwoOptStarNeighborhood(cuts, ls, solution, problem, penalty),
                "two_opt_star", improvement, "swap_star")

EducateSwapStar ==
    /\ pc = "swap_star"
    /\ Sweep(SwapStarNeighborhood(ls, solution, problem, penalty),
             "swap_star", improvement, "relocate")

\* the loop test failing: educate returns
EducateReturn ==
    /\ pc = "relocate"
    /\ ~improvement
    /\ pc' = "educate_done"
    /\ before' = solution
    /\ last' = [op |-> "return"]
    /\ UNCHANGED <<problem, solution, penalty, ls, hgs, improvement, start>>

EducateNext ==
    \/ Repair
    \/ EducateEnter
    \/ EducateRelocate
    \/ EducateSwap
    \/ EducateTwoOpt
    \/ EducateTwoOptStar
    \/ EducateSwapStar
    \/ EducateReturn

EducateSpec == EducateInit /\ [][EducateNext]_vars

\* The program keeps running: no step of educate waits for anything, so a step is
\* taken whenever one is possible.  This is weak fairness of EducateNext, written with
\* the state predicate that ENABLED <<EducateNext>>_vars equals: some step is possible
\* exactly when the program is not at a final position.
EducateFinished == pc \in {"educate_done", "panicked"}

EducateFairSpec ==
    /\ EducateSpec
    /\ WF_vars(EducateReturn)
    /\ ([]<>EducateFinished \/ []<><<EducateNext>>_vars)

-----------------------------------------------------------------------------
(* Claims about the local search *)

Neighbourhoods == {"relocate", "swap", "two_opt", "two_opt_star", "swap_star"}

\* the last step was a neighbourhood that accepted a move
Accepted(names) == last.op \in names /\ last.accepted

\* the indices an accepted move was applied with lie inside the routes it was applied
\* to: a removal or a read below the length, an insertion at most at the length
MoveInRange(move, sol) ==
    LET n1 == Len(sol.routes[move.r1_idx + 1].customers)
        n2 == Len(sol.routes[move.r2_idx + 1].customers)
        inside(i, n) == 0 <= i /\ i < n
    IN  /\ inside(move.r1_idx, Len(sol.routes))
        /\ inside(move.r2_idx, Len(sol.routes))
        /\ CASE move.op = "relocate" ->
                    inside(move.pos1, n1) /\ inside(move.pos2, n2 + 1)
             [] move.op = "swap" ->
                    inside(move.pos1, n1) /\ inside(move.pos2, n2)
             [] move.op = "two_opt" ->
                    inside(move.pos1 + 1, n1) /\ inside(move.pos2, n1)
                    /\ move.pos1 + 1 <= move.pos2
             [] move.op = "two_opt_star" ->
                    inside(move.pos1, n1) /\ inside(move.pos2, n2)
             [] move.op = "swap_star" ->
                    /\ inside(move.pos1[1], n1)
                    /\ inside(move.pos2[1], n2)
                    /\ inside(AdjustedPos(move.pos1[2], move.pos1[1]), n1)
                    /\ inside(AdjustedPos(move.pos2[2], move.pos2[1]), n2)

\* C7: after any accepted Relocate, Swap, 2-Opt, 2-Opt* or SWAP* move, and after
\* educate, each customer that was in the routes before is in exactly one route exactly
\* once and nothing else is, and the move's indices lie inside the routes.
C7_MovesPreservePermutation ==
    /\ Accepted(Neighbourhoods) =>
          /\ ServesExactlyOnce(solution.routes, Range(Flatten(before.routes)))
          /\ Len(Flatten(solution.routes)) = Len(Flatten(before.routes))
          /\ Len(solution.routes) = Len(before.routes)
          /\ MoveInRange(last.move, before)
    /\ pc = "educate_done" =>
          /\ ServesExactlyOnce(solution.routes, Range(Flatten(start.routes)))
          /\ Len(Flatten(solution.routes)) = Len(Flatten(start.routes))

C7_Witness ==
    /\ Accepted({"swap_star"})
    /\ last.move.pos1[1] # last.move.pos1[2]
    /\ Len(Flatten(before.routes)) = MaxCustomers + 1

\* C9: solution.cost after educate is at most the cost the solution had under the same
\* penalty when educate was entered.
C9_EducateNeverWorsens ==
    pc = "educate_done" => RLeq(solution.cost, Evaluate(start, problem, penalty).cost)

\* C10: whenever relocate_neighborhood, swap_neighborhood or two_opt_star_neighborhood
\* accepts a move, the solution's cost after the re-evaluation is strictly lower than
\* its cost before the call.
C10_AcceptedMoveLowersCost ==
    Accepted({"relocate", "swap", "two_opt_star"}) => RLess(solution.cost, before.cost)

\* C11: whenever swap_star_neighborhood accepts a move, the solution's cost after the
\* re-evaluation is strictly lower than its cost before the call (the delta it computed
\* being the real change of the two routes' distances plus the penalty change).
C11_SwapStarLowersCost ==
    Accepted({"swap_star"}) => RLess(solution.cost, before.cost)

\* C22: after repair on a solution with excess_capacity > 0 (start is the solution as it
\* was handed over, penalty the one repair computed from it), the solution is feasible
\* or its excess_capacity is strictly smaller than before the call.
C22_RepairReducesExcess ==
    (pc = "educate_done" /\ start.excess_capacity > 0 /\ penalty = RepairPenalty(start))
        => (solution.is_feasible \/ solution.excess_capacity < start.excess_capacity)

\* C8: educate terminates: a sweep without an accepted move comes, and educate returns.
C8_EducateTerminates == <>(pc = "educate_done")

-----------------------------------------------------------------------------
(* Specification EvalSpec: Solution::evaluate on routes in the states the program *)
(* and its tests leave them in *)

\* a route as the tests of evaluate build it: Route::new(), then the customers
RawRoute(customers) == [NewRoute EXCEPT !.customers = customers]

\* a route that was built and evaluated without its last customer, and then got it
\* inserted by a move: the caches are the old ones and the flag is set
GrownRoute(customers, p) ==
    [BuiltRoute(SubSeq(customers, 1, Len(customers) - 1), p) EXCEPT
        !.customers = customers, !.modified = TRUE]

RouteStates(customers, p) ==
    {BuiltRoute(customers, p), RawRoute(customers), GrownRoute(customers, p)}

EvalInit ==
    /\ problem \in EducateProblems
    /\ \E sg \in Segmentations([k \in 1..problem.n |-> k]) :
       \E routes \in [1..Len(sg) -> UNION {RouteStates(sg[k], problem) : k \in 1..Len(sg)}] :
          /\ \A k \in 1..Len(sg) : routes[k] \in RouteStates(sg[k], problem)
          /\ solution = [NewSolution EXCEPT !.routes = routes]
    /\ penalty \in Penalties
    /\ ls = NewLocalSearch
    /\ hgs = NoHgs
    /\ improvement = FALSE
    /\ pc = "evaluate"
    /\ before = NewSolution
    /\ start = NewSolution
    /\ last = NoOp

\* the call solution.evaluate(&problem, penalty)
EvalStep ==
    /\ pc = "evaluate"
    /\ solution' = Evaluate(solution, problem, penalty)
    /\ before' = solution
    /\ last' = [op |-> "evaluate"]
    /\ pc' = "evaluate_done"
    /\ UNCHANGED <<problem, penalty, ls, hgs, improvement, start>>

EvalNext == EvalStep

EvalSpec == EvalInit /\ [][EvalNext]_vars

-----------------------------------------------------------------------------
(* Claims about Solution::evaluate *)

\* C5: after evaluate every route's load is the sum of the demands of its customers
\* and its distance is the length of depot -> customers -> depot, whatever the caches
\* held before; hence a solution with a route whose demand exceeds the capacity is
\* reported as not feasible with a positive excess_capacity.
C5_CachesReflectRoutes ==
    pc = "evaluate_done" =>
        /\ \A k \in 1..Len(solution.routes) :
              /\ solution.routes[k].load = DemandOf(solution.routes[k].customers, problem)
              /\ solution.routes[k].distance = TourLength(solution.routes[k].customers, problem)
        /\ (\E k \in 1..Len(solution.routes) :
               DemandOf(solution.routes[k].customers, problem) > problem.vehicle_capacity)
           => (~solution.is_feasible /\ solution.excess_capacity > 0)

\* C6: after evaluate the aggregates agree with the routes' cached fields: distance is
\* the sum of the routes' distances, excess_capacity the sum of max(0, load - capacity),
\* is_feasible holds exactly when excess_capacity <= 1e-10 (on whole numbers: <= 0),
\* and cost is distance + penalty * excess_capacity.
C6_AggregatesMatchCaches ==
    pc = "evaluate_done" =>
        /\ solution.distance =
              SumSeq([k \in 1..Len(solution.routes) |-> solution.routes[k].distance])
        /\ solution.excess_capacity =
              SumSeq([k \in 1..Len(solution.routes) |->
                        Max2(0, solution.routes[k].load - problem.vehicle_capacity)])
        /\ solution.is_feasible <=> (solution.excess_capacity <= 0)
        /\ solution.cost = RAdd(RInt(solution.distance),
                                RScale(penalty, solution.excess_capacity))

C6_Witness ==
    /\ pc = "evaluate_done"
    /\ Len(solution.routes) >= 2
    /\ solution.excess_capacity > 0
    /\ penalty = RInt(HighPenalty)
    /\ \E k \in 1..Len(before.routes) : before.routes[k].modified

-----------------------------------------------------------------------------
(* Specification RunSpec: HgsAlgorithm::run, with educate taken sweep by sweep *)

\* two customers with the largest demand, the first on any site of EducateSites and
\* the second on a fixed one
RunProblems ==
    { NewProblem(<<s, <<3, 0>>>>, [k \in 1..2 |-> MaxDemand], 0, MaxCapacity) :
        s \in EducateSites }

\* Config::default() scaled down: the sizes and the iteration limit are small, and the
\* time limit is either absent or present
Configs ==
    { [ min_pop_size |-> m,
        generation_size |-> 1,
        n_elite |-> 1,
        n_closest |-> 1,
        target_feasible_ratio |-> [num |-> 1, den |-> 5],
        initial_capacity_penalty |-> RInt(1),
        max_iterations_without_improvement |-> it,
        time_limit |-> tl ] :
        m \in 1..2, it \in 1..2, tl \in BOOLEAN }

\* three customers that do not fit one vehicle
LargerRunProblem == NewProblem(<<<<-3, 0>>, <<3, 0>>, <<0, 4>>>>, <<2, 2, 1>>, 0, MaxCapacity)

\* three customers that fit one vehicle, the depot stored after them
CrowdedRunProblem == NewProblem(<<<<-3, 0>>, <<0, -4>>, <<0, 4>>>>, <<1, 1, 1>>, 3, MaxCapacity)

\* a population of three that is cut back after every insertion
CrowdedConfig ==
    [ min_pop_size |-> 3,
      generation_size |-> 0,
      n_elite |-> 1,
      n_closest |-> 1,
      target_feasible_ratio |-> [num |-> 1, den |-> 5],
      initial_capacity_penalty |-> RInt(1),
      max_iterations_without_improvement |-> MaxIterations,
      time_limit |-> FALSE ]

\* the runs followed: every configuration on two customers, the smallest population
\* on three, and the population of three
RunCases ==
    (RunProblems \X Configs)
        \cup ({LargerRunProblem} \X {config \in Configs : config.min_pop_size = 1})
        \cup {<<CrowdedRunProblem, CrowdedConfig>>}

\* the tours the shuffles of Population::initialize can leave
ShuffledTours(count, n) ==
    { VecOf([k \in 1..count |-> IF k <= MaxShuffled THEN shuffled[k] ELSE [i \in 1..n |-> i - 1]]) :
        shuffled \in [1..Min2(MaxShuffled, count) -> Perms(0..(n - 1))] }

RunInit ==
    /\ \E case \in RunCases :
          /\ problem = case[1]
          /\ hgs = NewHgs(case[2])
    /\ solution = NewSolution
    /\ penalty = RInt(1)
    /\ ls = NewLocalSearch
    /\ improvement = FALSE
    /\ pc = "run"
    /\ before = NewSolution
    /\ start = NewSolution
    /\ last = NoOp

\* run up to its loop: initialize() draws 4 * min_pop_size shuffled tours over
\* 0..get_customer_count(), ranks the population and takes the best feasible solution
RunInitialize ==
    /\ pc = "run"
    /\ \E tours \in ShuffledTours(4 * hgs.config.min_pop_size, GetCustomerCount(problem)) :
          \E pop \in {PopulationInitialize(hgs.population, tours, problem)} :
          hgs' = [hgs EXCEPT !.population = pop,
                             !.best_solution = GetBestFeasibleSolution(pop)]
    /\ pc' = "loop"
    /\ last' = [op |-> "initialize"]
    /\ UNCHANGED <<problem, solution, penalty, ls, improvement, before, start>>

\* should_terminate() answers false (the time limit, if any, has not passed): parents
\* are selected, crossed over and split, and educate is entered with the penalty
RunOffspring ==
    /\ pc = "loop"
    /\ ~IterationsExhausted(hgs)
    /\ hgs.iterations < MaxIterations
    /\ LET winners == TournamentWinners(hgs.population) IN
       IF winners = {}
       THEN \* binary_tournament_selection panics on the empty population
            /\ pc' = "panicked"
            /\ UNCHANGED <<solution, penalty>>
       ELSE IF Cardinality(winners) = 1
       THEN \* select_parents draws the same individual for parent2 for ever
            /\ pc' = "select_parents"
            /\ UNCHANGED <<solution, penalty>>
       ELSE \E w \in {d \in winners \X winners : d[1] # d[2]} :
               LET parent1 == IndividualAt(hgs.population, w[1])
                   parent2 == IndividualAt(hgs.population, w[2])
                   tour_size == Len(parent1.solution.giant_tour)
               IN  \E cut1, cut2 \in 0..Max2(tour_size - 1, 0) :
                      /\ solution' = Split(Crossover(parent1, parent2, cut1, cut2), problem)
                      /\ penalty' = hgs.population.capacity_penalty
                      /\ pc' = "educate"
    /\ last' = [op |-> "offspring"]
    /\ UNCHANGED <<problem, ls, hgs, improvement, before, start>>

\* the rest of the loop body once educate has returned
RunInsert ==
    /\ pc = "educate_done"
    /\ hgs' = AfterEducate(hgs, solution)
    /\ pc' = "loop"
    /\ last' = [op |-> "insert"]
    /\ UNCHANGED <<problem, solution, penalty, ls, improvement, before, start>>

\* should_terminate() answers true, by the iteration limit or by the time limit, and
\* run returns best_solution.unwrap()
RunReturn ==
    /\ pc = "loop"
    /\ IterationsExhausted(hgs) \/ hgs.config.time_limit
    /\ IF hgs.best_solution = <<>>
       THEN pc' = "panicked" /\ UNCHANGED solution
       ELSE pc' = "run_done" /\ solution' = hgs.best_solution[1]
    /\ last' = [op |-> "return"]
    /\ UNCHANGED <<problem, penalty, ls, hgs, improvement, before, start>>

RunNext ==
    \/ RunInitialize
    \/ RunOffspring
    \/ EducateEnter
    \/ EducateRelocate
    \/ EducateSwap
    \/ EducateTwoOpt
    \/ EducateTwoOptStar
    \/ EducateSwapStar
    \/ EducateReturn
    \/ RunInsert
    \/ RunReturn

RunSpec == RunInit /\ [][RunNext]_vars

-----------------------------------------------------------------------------
(* Claims about the run *)

\* C1: the solution HgsAlgorithm::run returns serves every customer exactly once:
\* every non-depot node is in exactly one returned route at exactly one position, and
\* no other node is in a route.
C1_RunServesEveryCustomer ==
    pc = "run_done" => ServesExactlyOnce(solution.routes, Customers(problem))

\* the positions run cannot leave: it has returned or panicked, it draws the same
\* second parent for ever, or the iterations followed are used up
RunHalted ==
    \/ pc \in {"run_done", "panicked", "select_parents"}
    \/ pc = "loop" /\ ~IterationsExhausted(hgs) /\ ~hgs.config.time_limit
                   /\ hgs.iterations >= MaxIterations

\* run under a scheduler that keeps the thread running: a step is taken whenever one
\* is possible (weak fairness of RunNext, written with the state predicate that
\* ENABLED <<RunNext>>_vars equals), and educate returns once its sweep accepted nothing
RunFairSpec ==
    /\ RunSpec
    /\ WF_vars(EducateReturn)
    /\ ([]<>RunHalted \/ []<><<RunNext>>_vars)

\* C13: with no time limit run eventually returns (within the iterations followed), and
\* it leaves the loop only with iterations_without_improvement at or above
\* max_iterations_without_improvement, or on the time limit.
C13_RunTerminates ==
    /\ ~hgs.config.time_limit => <>(pc = "run_done" \/ hgs.iterations >= MaxIterations)
    /\ [](pc = "run_done" => (IterationsExhausted(hgs) \/ hgs.config.time_limit))

\* every individual of both bags
AllIndividuals(pop) == pop.feasible_individuals \o pop.infeasible_individuals

\* C14: after initialisation the population holds 4 * min_pop_size individuals, each with
\* a giant tour that is a permutation of the customers and with routes that hold every
\* customer exactly once.
C14_InitialIndividualsRouted ==
    last.op = "initialize" =>
        /\ GetPopSize(hgs.population) = 4 * hgs.config.min_pop_size
        /\ \A k \in 1..GetPopSize(hgs.population) :
              LET s == AllIndividuals(hgs.population)[k].solution IN
              /\ Len(s.giant_tour) = GetCustomerCount(problem)
              /\ Range(s.giant_tour) = Customers(problem)
              /\ ServesExactlyOnce(s.routes, Customers(problem))

\* C12: every time run replaces HgsAlgorithm::best_solution, the new solution costs
\* strictly less than the one it replaces, also after select_survivors has evicted
\* individuals.
C12_BestCostDecreases ==
    [][(hgs.best_solution # <<>> /\ hgs'.best_solution # hgs.best_solution)
        => (hgs'.best_solution # <<>>
            /\ RLess(hgs'.best_solution[1].cost, hgs.best_solution[1].cost))]_vars

-----------------------------------------------------------------------------
(* Specification GeneticSpec: Genetic::crossover on every pair of parents and *)
(* every pair of cutting points *)

\* an individual as tests/genetic_tests.rs builds it: a tour, no routes
TourIndividual(tour) == NewIndividual(FromGiantTour(tour))

\* the parents: two permutations of the same 0 to MaxCustomers + 1 customers
ParentPairs ==
    UNION { Perms(1..n) \X Perms(1..n) : n \in 0..(MaxCustomers + 1) }

GeneticInit ==
    /\ \E parents \in ParentPairs :
          /\ before = TourIndividual(parents[1])
          /\ start = TourIndividual(parents[2])
    /\ problem = NewProblem(<<>>, <<>>, 0, MaxCapacity)
    /\ solution = NewSolution
    /\ penalty = RInt(1)
    /\ ls = NewLocalSearch
    /\ hgs = NoHgs
    /\ improvement = FALSE
    /\ pc = "parents"
    /\ last = NoOp

\* Genetic::crossover(before, start) with the cutting points the generator draws
GeneticCrossover ==
    /\ pc = "parents"
    /\ \E cut1, cut2 \in 0..Max2(Len(before.solution.giant_tour) - 1, 0) :
          /\ solution' = Crossover(before, start, cut1, cut2)
          /\ last' = [op |-> "crossover", cut1 |-> cut1, cut2 |-> cut2]
    /\ pc' = "crossed"
    /\ UNCHANGED <<problem, penalty, ls, hgs, improvement, before, start>>

GeneticNext == GeneticCrossover

GeneticSpec == GeneticInit /\ [][GeneticNext]_vars

\* C15: for parents whose tours are permutations of the same customers and for every
\* pair of cutting points, crossover returns, and the offspring's tour has the length of
\* parent1's, holds each customer of parent1 exactly once and has parent1's customers at
\* the positions start..=end.
C15_CrossoverYieldsPermutation ==
    pc = "crossed" =>
        LET p1_tour == before.solution.giant_tour
            from == Min2(last.cut1, last.cut2)
            to == Max2(last.cut1, last.cut2)
        IN  /\ Len(solution.giant_tour) = Len(p1_tour)
            /\ \A c \in Range(p1_tour) : Count(solution.giant_tour, c) = 1
            /\ \A k \in from..to : k < Len(p1_tour) => solution.giant_tour[k + 1] = p1_tour[k + 1]

\* an offspring of four customers that differs from both parents, cut in the middle
C15_Witness ==
    /\ pc = "crossed"
    /\ Len(solution.giant_tour) = MaxCustomers + 1
    /\ Min2(last.cut1, last.cut2) = 1
    /\ Max2(last.cut1, last.cut2) = 2
    /\ solution.giant_tour # before.solution.giant_tour
    /\ solution.giant_tour # start.solution.giant_tour

-----------------------------------------------------------------------------
(* Specification PopulationSpec: a Population driven through its public methods *)
(* with individuals built as tests/genetic_tests.rs builds them *)

\* two tours that share the pair (1, 2), at different positions
TestTours == {<<1, 2, 3>>, <<3, 1, 2>>}

TestCosts == {0, 10, 20}

\* create_test_individual with the cost and the feasibility flag set by hand
TestIndividual(tour, cost, feasible) ==
    NewIndividual([FromGiantTour(tour) EXCEPT !.cost = RInt(cost), !.is_feasible = feasible])

\* feasible individuals of every tour and cost, and one infeasible individual
TestIndividuals ==
    { TestIndividual(tour, cost, TRUE) : tour \in TestTours, cost \in TestCosts }
        \cup { TestIndividual(<<1, 2, 3>>, 10, FALSE) }

PopulationConfigs ==
    { [ min_pop_size |-> m,
        generation_size |-> 1,
        n_elite |-> 1,
        n_closest |-> 1,
        target_feasible_ratio |-> [num |-> 1, den |-> 2],
        initial_capacity_penalty |-> [num |-> 1, den |-> 8],
        max_iterations_without_improvement |-> 1,
        time_limit |-> FALSE ] : m \in 0..2 }

\* the penalty above which adjust_penalties is no longer followed
PenaltyCap == [num |-> 3, den |-> 20]

PopulationInit ==
    /\ \E config \in PopulationConfigs : hgs = [population |-> NewPopulation(config)]
    /\ problem = NewProblem(<<>>, <<>>, 0, MaxCapacity)
    /\ solution = NewSolution
    /\ penalty = RInt(1)
    /\ ls = NewLocalSearch
    /\ improvement = FALSE
    /\ pc = "ranked"
    /\ before = hgs.population
    /\ start = NewSolution
    /\ last = NoOp

\* Population::insert_individual
PopulationInsert ==
    /\ pc \in {"ranked", "stale"}
    /\ GetPopSize(hgs.population) < MaxPopSize
    /\ \E individual \in TestIndividuals :
          /\ hgs' = [hgs EXCEPT !.population = InsertIndividual(@, individual)]
          /\ solution' = individual.solution
    /\ pc' = "stale"
    /\ before' = hgs.population
    /\ last' = [op |-> "insert_individual", ranked |-> FALSE]
    /\ UNCHANGED <<problem, penalty, ls, improvement, start>>

\* Population::update_ranks
PopulationUpdateRanks ==
    /\ pc = "stale"
    /\ hgs' = [hgs EXCEPT !.population = UpdateRanks(@)]
    /\ pc' = "ranked"
    /\ before' = hgs.population
    /\ last' = [op |-> "update_ranks", ranked |-> FALSE]
    /\ UNCHANGED <<problem, solution, penalty, ls, improvement, start>>

\* Population::select_survivors
PopulationSelectSurvivors ==
    /\ pc \in {"ranked", "stale"}
    /\ hgs' = [hgs EXCEPT !.population = SelectSurvivors(@)]
    /\ before' = hgs.population
    /\ last' = [op |-> "select_survivors", ranked |-> pc = "ranked"]
    /\ UNCHANGED <<problem, solution, penalty, ls, improvement, pc, start>>

\* Population::adjust_penalties
PopulationAdjustPenalties ==
    /\ pc \in {"ranked", "stale"}
    /\ RLeq(hgs.population.capacity_penalty, PenaltyCap)
    /\ hgs' = [hgs EXCEPT !.population = AdjustPenalties(@)]
    /\ before' = hgs.population
    /\ last' = [op |-> "adjust_penalties", ranked |-> pc = "ranked"]
    /\ UNCHANGED <<problem, solution, penalty, ls, improvement, pc, start>>

\* Population::select_parents up to its loop: the first tournament
PopulationSelectParents ==
    /\ pc \in {"ranked", "stale"}
    /\ IF TournamentWinners(hgs.population) = {}
       THEN /\ pc' = "panicked"
            /\ last' = [op |-> "select_parents", ranked |-> pc = "ranked"]
       ELSE /\ pc' = "select_parents"
            /\ \E parent1 \in TournamentWinners(hgs.population) :
                  last' = [op |-> "select_parents", ranked |-> pc = "ranked", parent1 |-> parent1]
    /\ before' = hgs.population
    /\ UNCHANGED <<problem, solution, penalty, ls, hgs, improvement, start>>

\* a tournament for parent2 that ends the loop 'while std::ptr::eq(parent1, parent2)';
\* a tournament that returns parent1 again changes nothing
PopulationSecondParent ==
    /\ pc = "select_parents"
    /\ \E parent2 \in TournamentWinners(hgs.population) \ {last.parent1} :
          last' = [last EXCEPT !.op = "parents_selected"] @@ [parent2 |-> parent2]
    /\ pc' = "selected"
    /\ UNCHANGED <<problem, solution, penalty, ls, hgs, improvement, before, start>>

PopulationNext ==
    \/ PopulationInsert
    \/ PopulationUpdateRanks
    \/ PopulationSelectSurvivors
    \/ PopulationAdjustPenalties
    \/ PopulationSelectParents
    \/ PopulationSecondParent

PopulationSpec == PopulationInit /\ [][PopulationNext]_vars

\* no tournament can return an individual other than parent1
SecondParentBlocked ==
    pc = "select_parents" => TournamentWinners(hgs.population) \subseteq {last.parent1}

\* the population's methods under a random generator that is not for ever adverse: when
\* some tournament can end the loop of select_parents, one eventually does (weak
\* fairness of PopulationSecondParent, which is enabled exactly when the loop is
\* entered and SecondParentBlocked is false)
PopulationFairSpec ==
    /\ PopulationSpec
    /\ WF_vars(PopulationSecondParent)

-----------------------------------------------------------------------------
(* Claims about the population *)

\* the two bags of a population
BothBags(pop) == <<pop.feasible_individuals, pop.infeasible_individuals>>

\* C16: after select_survivors each bag holds at most min_pop_size individuals, and a
\* bag that held more than min_pop_size before the call holds exactly min_pop_size.
C16_SurvivorsWithinSize ==
    last.op = "select_survivors" =>
        \A b \in 1..2 :
            /\ Len(BothBags(hgs.population)[b]) <= hgs.population.min_pop_size
            /\ Len(BothBags(before)[b]) > before.min_pop_size
                  => Len(BothBags(hgs.population)[b]) = hgs.population.min_pop_size

\* C17: after select_survivors no bag with more than one individual holds two
\* individuals with equal giant tours.
C17_NoClonesSurvive ==
    last.op = "select_survivors" =>
        \A b \in 1..2 :
            LET bag == BothBags(hgs.population)[b] IN
            \A i, j \in 1..Len(bag) :
                i # j => bag[i].solution.giant_tour # bag[j].solution.giant_tour

\* the individuals of a bag with a given cost
CostCount(bag, cost) == Cardinality({k \in 1..Len(bag) : bag[k].solution.cost = cost})

\* the biased-fitness order of a bag coincides with its cost order
FitnessFollowsCost(bag) ==
    \A i, j \in 1..Len(bag) :
        RLeq(bag[i].biased_fitness, bag[j].biased_fitness)
            <=> RLeq(bag[i].solution.cost, bag[j].solution.cost)

\* C18: in a bag ranked by update_ranks whose biased-fitness order coincides with its
\* cost order, the individuals that remain after select_survivors are the min_pop_size
\* lowest-cost ones: every survivor costs at most what every evicted individual costs.
C18_SurvivorsAreCheapest ==
    (last.op = "select_survivors" /\ last.ranked) =>
        \A b \in 1..2 :
            LET old == BothBags(before)[b]
                new == BothBags(hgs.population)[b]
            IN  (FitnessFollowsCost(old) /\ Len(old) > before.min_pop_size) =>
                    \A s \in 1..Len(new), e \in 1..Len(old) :
                        CostCount(old, old[e].solution.cost) > CostCount(new, old[e].solution.cost)
                            => RLeq(new[s].solution.cost, old[e].solution.cost)

\* C19: insert_individual appends the individual to the feasible bag if and only if its
\* is_feasible flag is set, otherwise to the infeasible bag, and changes nothing else.
C19_InsertByFlag ==
    last.op = "insert_individual" =>
        \E individual \in TestIndividuals :
            /\ individual.solution = solution
            /\ hgs.population.feasible_individuals =
                  IF solution.is_feasible THEN Append(before.feasible_individuals, individual)
                  ELSE before.feasible_individuals
            /\ hgs.population.infeasible_individuals =
                  IF solution.is_feasible THEN before.infeasible_individuals
                  ELSE Append(before.infeasible_individuals, individual)
            /\ \A field \in DOMAIN before \ {"feasible_individuals", "infeasible_individuals"} :
                  hgs.population[field] = before[field]

\* both bags are in use and the last individual went to the infeasible one
C19_Witness ==
    /\ last.op = "insert_individual"
    /\ ~solution.is_feasible
    /\ Len(hgs.population.feasible_individuals) >= 1
    /\ Len(hgs.population.infeasible_individuals) = Len(before.infeasible_individuals) + 1

\* C20: adjust_penalties on a non-empty population multiplies capacity_penalty by 1.2
\* when feasible_count / size is strictly below target_feasible_ratio and divides it by
\* 1.2 otherwise, then raises it to 0.1 if it is smaller; on an empty population the
\* penalty is unchanged.  (ratio < target written as a cross product; p * 1.2 as 6p/5)
C20_PenaltyAdjusted ==
    last.op = "adjust_penalties" =>
        LET total == GetPopSize(before)
            feasible_count == Len(before.feasible_individuals)
            target == before.target_feasible_ratio
            old == before.capacity_penalty
            new == hgs.population.capacity_penalty
            below == feasible_count * target.den < target.num * total
            scaled == IF below THEN [num |-> old.num * 6, den |-> old.den * 5]
                      ELSE [num |-> old.num * 5, den |-> old.den * 6]
        IN  /\ total = 0 => new = old
            /\ total > 0 =>
                  /\ new.num * 10 >= new.den
                  /\ IF scaled.num * 10 < scaled.den
                     THEN new.num * 10 = new.den
                     ELSE new.num * scaled.den = scaled.num * new.den
            /\ [hgs.population EXCEPT !.capacity_penalty = old] = before

\* the penalty was raised from the floor by a population with too few feasible
\* individuals
C20_Witness ==
    /\ last.op = "adjust_penalties"
    /\ GetPopSize(before) = MaxPopSize
    /\ Len(before.feasible_individuals) = 1
    /\ before.capacity_penalty = PenaltyFloor
    /\ RLess(before.capacity_penalty, hgs.population.capacity_penalty)

\* C21: whenever the population holds at least two individuals, select_parents
\* eventually returns, with two parents that are distinct individuals.
C21_SelectParentsReturns ==
    [](pc = "select_parents" /\ GetPopSize(hgs.population) >= 2
          => <>(pc = "selected" /\ last.parent1 # last.parent2))

\* the individuals i # j of one bag after update_ranks, as <<bag, i, j>>
RankedPairs ==
    { r \in (1..2) \X (1..MaxPopSize) \X (1..MaxPopSize) :
        /\ r[2] <= Len(BothBags(hgs.population)[r[1]])
        /\ r[3] <= Len(BothBags(hgs.population)[r[1]])
        /\ r[2] # r[3] }

TourOf(r, k) == BothBags(hgs.population)[r[1]][r[k]].solution.giant_tour

StoredCommonPairs(r) == BothBags(hgs.population)[r[1]][r[2]].common_pairs[r[3]]

\* C23 as stated: the common_pairs value update_ranks stores for (i, j) is the number of
\* positions k at which tour i and tour j hold the same ordered pair (k, k+1).
C23_CommonPairsAtSamePosition ==
    last.op = "update_ranks" =>
        \A r \in RankedPairs :
            StoredCommonPairs(r) =
                Cardinality({k \in 1..(Len(TourOf(r, 2)) - 1) :
                                /\ k + 1 <= Len(TourOf(r, 3))
                                /\ TourOf(r, 2)[k] = TourOf(r, 3)[k]
                                /\ TourOf(r, 2)[k + 1] = TourOf(r, 3)[k + 1]})

\* C23 amended: the value stored for (i, j) is the number of positions k of tour i whose
\* ordered pair (k, k+1) occurs as an ordered pair of consecutive customers anywhere in
\* tour j.
C23_CommonPairsAnywhere ==
    last.op = "update_ranks" =>
        \A r \in RankedPairs :
            StoredCommonPairs(r) =
                Cardinality({k \in 1..(Len(TourOf(r, 2)) - 1) :
                                \E l \in 1..(Len(TourOf(r, 3)) - 1) :
                                    /\ TourOf(r, 2)[k] = TourOf(r, 3)[l]
                                    /\ TourOf(r, 2)[k + 1] = TourOf(r, 3)[l + 1]})

\* a ranked bag with two tours that share a pair at different positions, and a clone
C23_Witness ==
    /\ last.op = "update_ranks"
    /\ \E r \in RankedPairs : TourOf(r, 2) # TourOf(r, 3) /\ StoredCommonPairs(r) = 1
    /\ \E r \in RankedPairs : TourOf(r, 2) = TourOf(r, 3) /\ StoredCommonPairs(r) = 2

\* C24: when the giant tour holds a customer whose demand alone exceeds the capacity,
\* Split ends with routes that partition the whole tour, that customer is alone in its
\* route, and the evaluation that ends Split records a positive excess.
C24_OversizedCustomerAlone ==
    pc = "split_done" =>
        \A c \in Range(solution.giant_tour) :
            problem.demand[c] > problem.vehicle_capacity =>
                /\ Flatten(solution.routes) = solution.giant_tour
                /\ \A k \in 1..Len(solution.routes) : solution.routes[k].customers # <<>>
                /\ \E k \in 1..Len(solution.routes) : solution.routes[k].customers = <<c>>
                /\ solution.excess_capacity > 0
                /\ ~solution.is_feasible

-----------------------------------------------------------------------------
(* Specification TrackingSpec: the move memoization of LocalSearch, is_move_valid  *)
(* and update_route_timestamp called in any order after initialize_tracking.       *)
(* before records the history of the calls: the keys ever asked, and the keys      *)
(* tested since the last modification of their route.                              *)

TrackingInit ==
    /\ problem = NewProblem(<<<<-3, 0>>, <<3, 0>>>>, <<1, 1>>, 0, MaxCapacity)
    /\ \E sg \in Segmentations(<<1, 2>>) : solution = BuiltSolution(sg, problem)
    /\ penalty = RInt(1)
    /\ ls = InitializeTracking(NewLocalSearch, solution)
    /\ hgs = NoHgs
    /\ improvement = FALSE
    /\ pc = "tracking"
    /\ before = [asked |-> {}, tested |-> {}]
    /\ start = solution
    /\ last = NoOp

\* a call of is_move_valid(customer, move_type, route_idx)
TrackingIsMoveValid ==
    /\ pc = "tracking"
    /\ ls.move_count < MaxMoves
    /\ \E customer \in Customers(problem), move_type \in {0, 2}, route_idx \in 0..(Len(solution.routes) - 1) :
          LET key == <<customer, move_type, route_idx>>
              valid == IsMoveValid(ls, customer, move_type, route_idx)
          IN  /\ ls' = IF valid THEN StampMove(ls, customer, move_type, route_idx) ELSE ls
              /\ last' = [op |-> "is_move_valid", key |-> key, result |-> valid,
                          asked |-> key \in before.asked, tested |-> key \in before.tested]
              /\ before' = [asked |-> before.asked \cup {key},
                            tested |-> before.tested \cup {key}]
    /\ UNCHANGED <<problem, solution, penalty, hgs, improvement, pc, start>>

\* a call of update_route_timestamp(route_idx)
TrackingUpdateRoute ==
    /\ pc = "tracking"
    /\ ls.move_count < MaxMoves
    /\ \E route_idx \in 0..(Len(solution.routes) - 1) :
          /\ ls' = UpdateRouteTimestamp(ls, route_idx)
          /\ last' = [op |-> "update_route_timestamp", route |-> route_idx]
          /\ before' = [before EXCEPT !.tested = {key \in @ : key[3] # route_idx}]
    /\ UNCHANGED <<problem, solution, penalty, hgs, improvement, pc, start>>

TrackingNext == TrackingIsMoveValid \/ TrackingUpdateRoute

TrackingSpec == TrackingInit /\ [][TrackingNext]_vars

\* C25: once tracking is initialised, is_move_valid(customer, move_type, route) answers
\* false exactly when the same key was tested since the last update_route_timestamp of
\* its route (or since initialisation): true the first time, false when asked again
\* with the route unmodified, true again after the route was modified.
C25_MoveSkippedOnlyIfTested ==
    last.op = "is_move_valid" => (last.result = ~last.tested)

\* a move asked before, whose route was modified since, is valid again
C25_Witness ==
    /\ last.op = "is_move_valid"
    /\ last.asked /\ ~last.tested /\ last.result
    /\ \E key \in before.tested \ {last.key} : ~IsMoveValid(ls, key[1], key[2], key[3])

-----------------------------------------------------------------------------
(* Claims about 2-Opt *)

\* the moves <<route index, i, j>> two_opt_neighborhood ranges over that improve
ImprovingTwoOptMoves(sol, p) ==
    { mv \in (0..(Len(sol.routes) - 1)) \X (0..MaxCustomers) \X (0..MaxCustomers) :
        /\ Len(sol.routes[mv[1] + 1].customers) >= 4
        /\ mv[2] + 2 <= mv[3]
        /\ mv[3] <= Len(sol.routes[mv[1] + 1].customers) - 1
        /\ BelowMinusEps(RInt(EvaluateTwoOpt(sol, p, mv[1], mv[2], mv[3]))) }

\* no 2-Opt move is held back by the memoization, as with fresh tracking
NoTwoOptTested(l) == \A key \in DOMAIN l.move_timestamps : key[2] # 2

\* C26: if a route of at least four customers has positions i < j, j >= i + 2, whose
\* 2-Opt delta is below -1e-6, two_opt_neighborhood, called with no 2-Opt move yet
\* tested, applies a move, returns true and leaves a strictly lower cost, whatever the
\* outcome of its shuffles.
C26_TwoOptFindsImprovement ==
    [][(pc = "two_opt" /\ NoTwoOptTested(ls) /\ ImprovingTwoOptMoves(solution, problem) # {})
          => /\ last'.op = "two_opt" /\ last'.accepted
             /\ last'.move.op = "two_opt"
             /\ RLess(solution'.cost, solution.cost)]_vars

-----------------------------------------------------------------------------
(* Claims about the population during a run *)

\* rank_feasibility is a 0-based position by cost in the bag (any position within a
\* block of equal costs, no two individuals at the same one)
RankedByCost(bag) ==
    /\ \A k \in 1..Len(bag) :
          /\ bag[k].rank_feasibility >=
                Cardinality({k2 \in 1..Len(bag) : RLess(bag[k2].solution.cost, bag[k].solution.cost)})
          /\ bag[k].rank_feasibility <
                Cardinality({k2 \in 1..Len(bag) : RLeq(bag[k2].solution.cost, bag[k].solution.cost)})
    /\ \A k, k2 \in 1..Len(bag) : k # k2 => bag[k].rank_feasibility # bag[k2].rank_feasibility

\* biased_fitness is rank_feasibility + (1 - n_elite / |pop|) * rank_diversity
FitnessOfRanks(pop, bag) ==
    \A k \in 1..Len(bag) :
        LET fitness == RAdd(RInt(bag[k].rank_feasibility),
                            RScale(RSub(RInt(1), Rat(pop.n_elite, GetPopSize(pop))),
                                   bag[k].rank_diversity))
        IN  RLeq(fitness, bag[k].biased_fitness) /\ RLeq(bag[k].biased_fitness, fitness)

\* C27: whenever the main loop reads the ranking (should_terminate has answered false
\* and select_parents is about to run its tournaments), every individual's
\* rank_feasibility is its 0-based position by cost within its current bag and its
\* biased_fitness is rank_feasibility + (1 - n_elite/|pop|) * rank_diversity for the
\* current population, offspring inserted since the last ranking included.
C27_RanksCurrentWhenRead ==
    (pc = "loop" /\ ~IterationsExhausted(hgs)) =>
        \A b \in 1..2 :
            /\ RankedByCost(BothBags(hgs.population)[b])
            /\ FitnessOfRanks(hgs.population, BothBags(hgs.population)[b])

\* C28: for every individual in the population, solution.giant_tour is the
\* concatenation, in route order, of the customer sequences of solution.routes: for
\* the individuals created at initialisation and for an offspring after educate.
C28_GiantTourMatchesRoutes ==
    pc \in {"loop", "educate", "educate_done", "run_done"} =>
        \A individual \in Range(AllIndividuals(hgs.population)) :
            individual.solution.giant_tour = Flatten(individual.solution.routes)

\* C29 as stated: at every termination check, after initialisation and after each
\* completed iteration, neither bag holds more than min_pop_size + generation_size
\* individuals.
C29_BagsWithinMaxSize ==
    pc = "loop" =>
        \A b \in 1..2 :
            Len(BothBags(hgs.population)[b])
                <= hgs.config.min_pop_size + hgs.config.generation_size

\* C29 amended: the bound holds at every termination check that follows a completed
\* iteration; at the check that follows initialisation the population holds
\* 4 * min_pop_size individuals.
C29_BagsWithinMaxSizeAfterIteration ==
    pc = "loop" =>
        /\ last.op = "insert" =>
              \A b \in 1..2 :
                  Len(BothBags(hgs.population)[b])
                      <= hgs.config.min_pop_size + hgs.config.generation_size
        /\ last.op = "initialize" =>
              GetPopSize(hgs.population) = 4 * hgs.config.min_pop_size

\* an iteration that ends with a full bag, after an earlier one cut the population
C29_Witness ==
    /\ pc = "loop" /\ last.op = "insert"
    /\ hgs.iterations >= 2
    /\ GetPopSize(hgs.population) < 4 * hgs.config.min_pop_size
    /\ \E b \in 1..2 :
          Len(BothBags(hgs.population)[b])
              = hgs.config.min_pop_size + hgs.config.generation_size

\* the position of the first individual of least biased fitness: the one a stable
\* ascending sort puts first
LowestFitness(bag) ==
    CHOOSE k \in 1..Len(bag) :
        /\ \A k2 \in 1..Len(bag) : RLeq(bag[k].biased_fitness, bag[k2].biased_fitness)
        /\ \A k2 \in 1..(k - 1) : ~RLeq(bag[k2].biased_fitness, bag[k].biased_fitness)

\* C30: select_survivors never evicts the individual with the lowest biased fitness of
\* a bag: a bag it cuts keeps that individual at its front, and a bag it does not cut
\* is left as it is, for every bag content and every min_pop_size.
C30_BestSurvives ==
    last.op = "select_survivors" =>
        \A b \in 1..2 :
            LET old == BothBags(before)[b]
                new == BothBags(hgs.population)[b]
            IN  old # <<>> =>
                    /\ new # <<>>
                    /\ IF Len(old) > before.min_pop_size
                       THEN new[1] = old[LowestFitness(old)]
                       ELSE new = old

\* a bag of different tours and fitness values, its best individual not at the front,
\* cut to that individual
C30_Witness ==
    /\ last.op = "select_survivors"
    /\ before.min_pop_size = 0
    /\ \E b \in 1..2 :
          LET old == BothBags(before)[b]
              new == BothBags(hgs.population)[b]
          IN  /\ Len(old) > 2 /\ Len(new) = 1
              /\ LowestFitness(old) # 1
              /\ \E i, j \in 1..Len(old) :
                    /\ old[i].solution.giant_tour # old[j].solution.giant_tour
                    /\ old[i].biased_fitness # old[j].biased_fitness

=============================================================================
